---- MODULE Spec2Model ----
(***************************************************************************)
(* A model of trlc-platform: the one-time initialization state machine of  *)
(* core.hpp (initializePlatform / isPlatformInitialized), the ordering of  *)
(* CompilerVersion (compiler.hpp), the byte-order utilities of             *)
(* endianness.hpp, the detection functions and macros of cpp_standard.hpp, *)
(* architecture.hpp, compiler.hpp, features.hpp and platform.hpp, each     *)
(* evaluated in the builds it depends on, the assertion handler of         *)
(* debug.hpp, Version and getPlatformReport of core.hpp, and the runtime   *)
(* feature template of traits.hpp.                                         *)
(***************************************************************************)
EXTENDS Integers, Sequences, FiniteSets, TLC

\* ------------------------------------------------------------------------
\* Bounds of the model
\* ------------------------------------------------------------------------
NumThreads == 3
MaxCalls == 2

Threads == 1..NumThreads

VARIABLES
    \* core.hpp: detail::g_platform_initialized, detail::g_initialization_in_progress
    g_platform_initialized,
    g_initialization_in_progress,
    \* position of each thread inside initializePlatform()
    pc,
    \* number of calls of initializePlatform() each thread has started
    calls,
    \* history: value of the DONE flag when the thread's current call began
    beganDone,
    \* history: how the thread's last finished call ended
    \*   "none" | "fast" | "spin" | "winner" | "caught"
    ended,
    \* history: number of successful compare-and-set operations so far
    casWins,
    \* history: number of completed runs of the setup work
    setupRuns,
    \* compiler.hpp: three CompilerVersion values and the results of their
    \* relational operators
    va, vb, vc, rel,
    \* endianness.hpp: the build (environment signals, builtins, memory
    \* layout), the integral type and value of a call, and its results
    build, typ, val, res,
    \* the detection functions: the signals of the build a function is
    \* evaluated in (or the value it is applied to), and what it returned
    sig, out,
    \* debug.hpp: DebugUtils::_assertion_handler
    assertion_handler,
    \* position of each thread inside setAssertionHandler(), the argument of
    \* its call and its local variable handler
    hpc, setArg, handler,
    \* history: the argument of the call whose store came last, and what the
    \* last getAssertionHandler() returned
    lastSet, got

initVars == <<g_platform_initialized, g_initialization_in_progress, pc, calls,
              beganDone, ended, casWins, setupRuns>>

versionVars == <<va, vb, vc, rel>>

endianVars == <<build, typ, val, res>>

detectVars == <<sig, out>>

debugVars == <<assertion_handler, hpc, setArg, handler, lastSet, got>>

pureVars == <<versionVars, endianVars, detectVars, debugVars>>

vars == <<initVars, pureVars>>

\* ------------------------------------------------------------------------
\* core.hpp: initialization state
\* ------------------------------------------------------------------------
InitPlatformState ==
    /\ g_platform_initialized = FALSE
    /\ g_initialization_in_progress = FALSE
    /\ pc = [t \in Threads |-> "idle"]
    /\ calls = [t \in Threads |-> 0]
    /\ beganDone = [t \in Threads |-> FALSE]
    /\ ended = [t \in Threads |-> "none"]
    /\ casWins = 0
    /\ setupRuns = 0

\* isPlatformInitialized(): an acquire load of the DONE flag
isPlatformInitialized == g_platform_initialized

\* return from initializePlatform()
ReturnFrom(t, how) ==
    /\ pc' = [pc EXCEPT ![t] = "idle"]
    /\ ended' = [ended EXCEPT ![t] = how]

\* a thread enters initializePlatform()
Call(t) ==
    /\ pc[t] = "idle"
    /\ UNCHANGED pureVars
    /\ calls[t] < MaxCalls
    /\ calls' = [calls EXCEPT ![t] = @ + 1]
    /\ pc' = [pc EXCEPT ![t] = "check"]
    /\ beganDone' = [beganDone EXCEPT ![t] = g_platform_initialized]
    /\ UNCHANGED <<g_platform_initialized, g_initialization_in_progress, ended,
                   casWins, setupRuns>>

\* bug variant: the fast-path test is missing, every call goes on to the
\* compare-and-set
CheckDone_NoFastPath(t) ==
    /\ pc[t] = "check"
    /\ UNCHANGED pureVars
    /\ pc' = [pc EXCEPT ![t] = "cas"]
    /\ UNCHANGED <<g_platform_initialized, g_initialization_in_progress, calls,
                   beganDone, ended, casWins, setupRuns>>

\* if (g_platform_initialized.load(acquire)) return;
CheckDone(t) ==
    /\ pc[t] = "check"
    /\ UNCHANGED pureVars
    /\ IF g_platform_initialized
         THEN ReturnFrom(t, "fast")
         ELSE /\ pc' = [pc EXCEPT ![t] = "cas"]
              /\ UNCHANGED ended
    /\ UNCHANGED <<g_platform_initialized, g_initialization_in_progress, calls,
                   beganDone, casWins, setupRuns>>

\* bug variant: a caller that loses the compare-and-set returns at once
\* instead of waiting for the DONE flag
CompareExchange_LoserReturns(t) ==
    /\ pc[t] = "cas"
    /\ UNCHANGED pureVars
    /\ IF g_initialization_in_progress = FALSE
         THEN /\ g_initialization_in_progress' = TRUE
              /\ pc' = [pc EXCEPT ![t] = "setup"]
              /\ casWins' = casWins + 1
              /\ UNCHANGED ended
         ELSE /\ ReturnFrom(t, "spin")
              /\ UNCHANGED <<g_initialization_in_progress, casWins>>
    /\ UNCHANGED <<g_platform_initialized, calls, beganDone, setupRuns>>

\* bug variant: the flag is set by a plain store instead of the
\* compare-and-set, so every caller that reaches it goes on to the setup
CompareExchange_PlainStore(t) ==
    /\ pc[t] = "cas"
    /\ UNCHANGED pureVars
    /\ g_initialization_in_progress' = TRUE
    /\ pc' = [pc EXCEPT ![t] = "setup"]
    /\ casWins' = casWins + 1
    /\ UNCHANGED <<g_platform_initialized, calls, beganDone, ended, setupRuns>>

\* g_initialization_in_progress.compare_exchange_strong(expected = false, true)
CompareExchange(t) ==
    /\ pc[t] = "cas"
    /\ UNCHANGED pureVars
    /\ IF g_initialization_in_progress = FALSE
         THEN /\ g_initialization_in_progress' = TRUE
              /\ pc' = [pc EXCEPT ![t] = "setup"]
              /\ casWins' = casWins + 1
         ELSE /\ pc' = [pc EXCEPT ![t] = "spin"]
              /\ UNCHANGED <<g_initialization_in_progress, casWins>>
    /\ UNCHANGED <<g_platform_initialized, calls, beganDone, ended, setupRuns>>

\* bug variant: the flag is read once before the loop (a plain, hoisted load),
\* so the loop never sees the store of the winner
SpinWait_HoistedLoad(t) ==
    /\ pc[t] = "spin"
    /\ UNCHANGED vars

\* while (!g_platform_initialized.load(acquire)) { pause / yield } return;
SpinWait(t) ==
    /\ pc[t] = "spin"
    /\ UNCHANGED pureVars
    /\ IF g_platform_initialized
         THEN ReturnFrom(t, "spin")
         ELSE UNCHANGED <<pc, ended>>
    /\ UNCHANGED <<g_platform_initialized, g_initialization_in_progress, calls,
                   beganDone, casWins, setupRuns>>

\* bug variant: the DONE flag is stored before the setup work has run
SetupWork_StoreFirst(t) ==
    /\ pc[t] = "setup"
    /\ UNCHANGED pureVars
    /\ g_platform_initialized' = TRUE
    /\ pc' = [pc EXCEPT ![t] = "store"]
    /\ UNCHANGED <<g_initialization_in_progress, calls, beganDone, ended,
                   casWins, setupRuns>>

\* try { runtime feature detection initialization ...
SetupWork(t) ==
    /\ pc[t] = "setup"
    /\ UNCHANGED pureVars
    /\ pc' = [pc EXCEPT ![t] = "store"]
    /\ setupRuns' = setupRuns + 1
    /\ UNCHANGED <<g_platform_initialized, g_initialization_in_progress, calls,
                   beganDone, ended, casWins>>

\* ... g_platform_initialized.store(true, release); }
StoreDone(t) ==
    /\ pc[t] = "store"
    /\ UNCHANGED pureVars
    /\ g_platform_initialized' = TRUE
    /\ pc' = [pc EXCEPT ![t] = "clear"]
    /\ UNCHANGED <<g_initialization_in_progress, calls, beganDone, ended,
                   casWins, setupRuns>>

\* bug variant: the final store clears the DONE flag instead of the
\* in-progress flag
ClearInProgress_WrongFlag(t) ==
    /\ pc[t] = "clear"
    /\ UNCHANGED pureVars
    /\ g_platform_initialized' = FALSE
    /\ ReturnFrom(t, "winner")
    /\ UNCHANGED <<g_initialization_in_progress, calls, beganDone, casWins,
                   setupRuns>>

\* g_initialization_in_progress.store(false, release); and return
ClearInProgress(t) ==
    /\ pc[t] = "clear"
    /\ UNCHANGED pureVars
    /\ g_initialization_in_progress' = FALSE
    /\ ReturnFrom(t, "winner")
    /\ UNCHANGED <<g_platform_initialized, calls, beganDone, casWins, setupRuns>>

\* bug variant: the handler returns without clearing the in-progress flag
SetupThrows_FlagKept(t) ==
    /\ pc[t] = "setup"
    /\ UNCHANGED pureVars
    /\ ReturnFrom(t, "caught")
    /\ UNCHANGED <<g_platform_initialized, g_initialization_in_progress, calls,
                   beganDone, casWins, setupRuns>>

\* catch (...) { g_initialization_in_progress.store(false, release); return; }
\* taken when the setup work inside the try block throws
SetupThrows(t) ==
    /\ pc[t] = "setup"
    /\ UNCHANGED pureVars
    /\ g_initialization_in_progress' = FALSE
    /\ ReturnFrom(t, "caught")
    /\ UNCHANGED <<g_platform_initialized, calls, beganDone, casWins, setupRuns>>

\* the steps of a call that is under way
Step(t) ==
    \/ CheckDone(t)
    \/ CompareExchange(t)
    \/ SpinWait(t)
    \/ SetupWork(t)
    \/ StoreDone(t)
    \/ ClearInProgress(t)

Next ==
    \/ \E t \in Threads : Call(t)
    \/ \E t \in Threads : CheckDone(t)
    \/ \E t \in Threads : CompareExchange(t)
    \/ \E t \in Threads : SpinWait(t)
    \/ \E t \in Threads : SetupWork(t)
    \/ \E t \in Threads : StoreDone(t)
    \/ \E t \in Threads : ClearInProgress(t)

\* ------------------------------------------------------------------------
\* compiler.hpp: CompilerVersion and its relational operators
\* ------------------------------------------------------------------------
MaxVer == 2

CompilerVersion == [major : 0..MaxVer, minor : 0..MaxVer, patch : 0..MaxVer]

\* CompilerVersion(): the unknown version
DefaultVersion == [major |-> 0, minor |-> 0, patch |-> 0]

\* bug variant: the last component is compared strictly
OpGe_StrictPatch(a, b) ==
    IF a.major # b.major THEN a.major > b.major
    ELSE IF a.minor # b.minor THEN a.minor > b.minor
    ELSE a.patch > b.patch

\* operator>=
OpGe(a, b) ==
    IF a.major # b.major THEN a.major > b.major
    ELSE IF a.minor # b.minor THEN a.minor > b.minor
    ELSE a.patch >= b.patch

\* operator<
OpLt(a, b) ==
    IF a.major # b.major THEN a.major < b.major
    ELSE IF a.minor # b.minor THEN a.minor < b.minor
    ELSE a.patch < b.patch

\* operator==
OpEq(a, b) == a.major = b.major /\ a.minor = b.minor /\ a.patch = b.patch

\* operator!=
OpNe(a, b) == ~OpEq(a, b)

\* operator>
OpGt(a, b) == ~OpLt(a, b) /\ ~OpEq(a, b)

\* operator<=
OpLe(a, b) == OpLt(a, b) \/ OpEq(a, b)

\* the six operators applied to one ordered pair
Relate(a, b) ==
    [lt |-> OpLt(a, b), eq |-> OpEq(a, b), gt |-> OpGt(a, b),
     le |-> OpLe(a, b), ge |-> OpGe(a, b), ne |-> OpNe(a, b)]

NoRel == [done |-> FALSE]

IdleVersion ==
    /\ va = DefaultVersion
    /\ vb = DefaultVersion
    /\ vc = DefaultVersion
    /\ rel = NoRel

InitVersion ==
    /\ va \in CompilerVersion
    /\ vb \in CompilerVersion
    /\ vc \in CompilerVersion
    /\ rel = NoRel

\* the comparisons of a, b and c, as testVersionComparison applies them
CompareVersions ==
    /\ rel = NoRel
    /\ rel' = [done |-> TRUE,
               ab |-> Relate(va, vb), ba |-> Relate(vb, va),
               bc |-> Relate(vb, vc), ac |-> Relate(va, vc)]
    /\ UNCHANGED <<va, vb, vc>>
    /\ UNCHANGED <<initVars, endianVars, detectVars, debugVars>>

\* ------------------------------------------------------------------------
\* endianness.hpp: byte order detection, byte swapping, network byte order
\* ------------------------------------------------------------------------
NumByteVals == 2

\* the byte values the sampled integers are made of
ByteTable == <<18, 240, 0, 255, 128, 1>>

ByteVals == {ByteTable[i] : i \in 1..NumByteVals}

\* An unsigned N-byte integer is the sequence of its base-256 digits, least
\* significant first.  An integral value is a sign and a magnitude.
Words(n) == [1..n -> ByteVals]

IntegralTypes == [size : {1, 2, 4, 8}, signed : BOOLEAN]

TopBit(d) == d[Len(d)] >= 128

MinMagnitude(n) == SubSeq([i \in 1..n |-> IF i = n THEN 128 ELSE 0], 1, n)

IsZero(d) == \A i \in 1..Len(d) : d[i] = 0

\* the values of an integral type, with digits drawn from ByteVals
ValuesOf(T) ==
    IF T.signed
      THEN {v \in [neg : BOOLEAN, mag : Words(T.size)] :
              IF v.neg
                THEN ~IsZero(v.mag)
                     /\ (~TopBit(v.mag) \/ v.mag = MinMagnitude(T.size))
                ELSE ~TopBit(v.mag)}
      ELSE [neg : {FALSE}, mag : Words(T.size)]

\* the builds: defined macros, the values of the byte order macros, the
\* builtins the compiler provides, and the first byte in memory of the
\* 32-bit integer 0x01020304 (4: little-endian, 1: big-endian)
AllBswap == {"__builtin_bswap16", "__builtin_bswap32", "__builtin_bswap64"}

OrderMacros == {"__BYTE_ORDER__", "__ORDER_LITTLE_ENDIAN__", "__ORDER_BIG_ENDIAN__"}

Builds ==
    { \* GCC or Clang, little-endian x86-64
      [macros |-> OrderMacros \cup {"__GNUC__", "__x86_64__"},
       byte_order |-> "__ORDER_LITTLE_ENDIAN__", bsd_byte_order |-> "undef",
       builtins |-> AllBswap, first_byte |-> 4],
      \* GCC, big-endian SPARC
      [macros |-> OrderMacros \cup {"__GNUC__", "__sparc__"},
       byte_order |-> "__ORDER_BIG_ENDIAN__", bsd_byte_order |-> "undef",
       builtins |-> AllBswap, first_byte |-> 1],
      \* a GCC without __builtin_bswap16, PDP-endian
      [macros |-> OrderMacros \cup {"__GNUC__"},
       byte_order |-> "__ORDER_PDP_ENDIAN__", bsd_byte_order |-> "undef",
       builtins |-> {"__builtin_bswap32", "__builtin_bswap64"}, first_byte |-> 2],
      \* MSVC on Windows
      [macros |-> {"_MSC_VER", "_WIN32", "_M_X64"},
       byte_order |-> "undef", bsd_byte_order |-> "undef",
       builtins |-> {}, first_byte |-> 4],
      \* an unknown compiler with the BSD macros, big-endian
      [macros |-> {"BYTE_ORDER", "LITTLE_ENDIAN", "BIG_ENDIAN"},
       byte_order |-> "undef", bsd_byte_order |-> "BIG_ENDIAN",
       builtins |-> {}, first_byte |-> 1],
      \* an unknown compiler without any signal, little-endian
      [macros |-> {},
       byte_order |-> "undef", bsd_byte_order |-> "undef",
       builtins |-> {}, first_byte |-> 4] }

Defined(b, m) == m \in b.macros

AnyDefined(b, ms) == b.macros \cap ms # {}

\* bug variant: the architecture table is consulted for x86 and ARM64 only,
\* the big-endian architectures are left to the runtime probe
detectByteOrderCompileTime_NoBigTable(b) ==
    IF OrderMacros \subseteq b.macros
      THEN IF b.byte_order = "__ORDER_LITTLE_ENDIAN__" THEN "little_endian"
           ELSE IF b.byte_order = "__ORDER_BIG_ENDIAN__" THEN "big_endian"
           ELSE "mixed_endian"
    ELSE IF {"BYTE_ORDER", "LITTLE_ENDIAN", "BIG_ENDIAN"} \subseteq b.macros
      THEN IF b.bsd_byte_order = "LITTLE_ENDIAN" THEN "little_endian"
           ELSE IF b.bsd_byte_order = "BIG_ENDIAN" THEN "big_endian"
           ELSE "mixed_endian"
    ELSE IF AnyDefined(b, {"_WIN32", "_WIN64"}) THEN "little_endian"
    ELSE IF AnyDefined(b, {"__LITTLE_ENDIAN__", "__ARMEL__"}) THEN "little_endian"
    ELSE IF AnyDefined(b, {"__BIG_ENDIAN__", "__ARMEB__"}) THEN "big_endian"
    ELSE IF AnyDefined(b, {"__i386__", "__x86_64__", "__amd64__", "_M_IX86",
                           "_M_X64", "_M_AMD64", "__aarch64__", "_M_ARM64"})
      THEN "little_endian"
    ELSE "unknown"

\* detail::detectByteOrderCompileTime
detectByteOrderCompileTime(b) ==
    IF OrderMacros \subseteq b.macros
      THEN IF b.byte_order = "__ORDER_LITTLE_ENDIAN__" THEN "little_endian"
           ELSE IF b.byte_order = "__ORDER_BIG_ENDIAN__" THEN "big_endian"
           ELSE "mixed_endian"
    ELSE IF {"BYTE_ORDER", "LITTLE_ENDIAN", "BIG_ENDIAN"} \subseteq b.macros
      THEN IF b.bsd_byte_order = "LITTLE_ENDIAN" THEN "little_endian"
           ELSE IF b.bsd_byte_order = "BIG_ENDIAN" THEN "big_endian"
           ELSE "mixed_endian"
    ELSE IF AnyDefined(b, {"_WIN32", "_WIN64"}) THEN "little_endian"
    ELSE IF AnyDefined(b, {"__LITTLE_ENDIAN__", "__ARMEL__"}) THEN "little_endian"
    ELSE IF AnyDefined(b, {"__BIG_ENDIAN__", "__ARMEB__"}) THEN "big_endian"
    ELSE IF AnyDefined(b, {"__i386__", "__x86_64__", "__amd64__", "_M_IX86",
                           "_M_X64", "_M_AMD64", "__aarch64__", "_M_ARM64"})
      THEN "little_endian"
    ELSE IF \/ AnyDefined(b, {"__sparc__", "__sparc", "__MIPSEB__", "_POWER"})
            \/ (Defined(b, "__powerpc__") /\ Defined(b, "__BIG_ENDIAN__"))
      THEN "big_endian"
    ELSE "unknown"

\* detail::detectByteOrderRuntime: the first byte of 0x01020304 in memory
detectByteOrderRuntime(b) ==
    IF b.first_byte = 1 THEN "big_endian"
    ELSE IF b.first_byte = 4 THEN "little_endian"
    ELSE "mixed_endian"

\* getByteOrder
getByteOrder(b) ==
    LET compile_time_order == detectByteOrderCompileTime(b)
    IN  IF compile_time_order # "unknown"
          THEN compile_time_order
          ELSE detectByteOrderRuntime(b)

\* isLittleEndian
isLittleEndian(b) == getByteOrder(b) = "little_endian"

\* isBigEndian
isBigEndian(b) == getByteOrder(b) = "big_endian"

\* bitwise & and | of two non-negative integers
RECURSIVE BitAnd(_, _)
BitAnd(a, b) ==
    IF a = 0 \/ b = 0 THEN 0
    ELSE (IF a % 2 = 1 /\ b % 2 = 1 THEN 1 ELSE 0) + 2 * BitAnd(a \div 2, b \div 2)

RECURSIVE BitOr(_, _)
BitOr(a, b) ==
    IF a = 0 THEN b
    ELSE IF b = 0 THEN a
    ELSE (IF a % 2 = 1 \/ b % 2 = 1 THEN 1 ELSE 0) + 2 * BitOr(a \div 2, b \div 2)

\* the n-byte word with the digits f[1] .. f[n], as a sequence
Word(f, n) == SubSeq(f, 1, n)

\* & and | of two words of the same width
WordAnd(x, m) == Word([i \in 1..Len(x) |-> BitAnd(x[i], m[i])], Len(x))

WordOr(x, y) == Word([i \in 1..Len(x) |-> BitOr(x[i], y[i])], Len(x))

\* x >> 8k and x << 8k within the width of x
ShiftRight(x, k) ==
    Word([i \in 1..Len(x) |-> IF i + k <= Len(x) THEN x[i + k] ELSE 0], Len(x))

ShiftLeft(x, k) ==
    Word([i \in 1..Len(x) |-> IF i - k >= 1 THEN x[i - k] ELSE 0], Len(x))

\* the mask with 0xFF in byte j (1 is the least significant) of an n-byte word
Mask(n, j) == Word([i \in 1..n |-> IF i = j THEN 255 ELSE 0], n)

\* __builtin_bswap16 / 32 / 64: the bytes in reverse order
Builtin(x) == Word([i \in 1..Len(x) |-> x[Len(x) + 1 - i]], Len(x))

\* static_cast<uint16_t>((value << 8) | (value >> 8)), value promoted to int
Manual16(x) ==
    LET promoted == x \o <<0, 0>>
    IN  SubSeq(WordOr(ShiftLeft(promoted, 1), ShiftRight(promoted, 1)), 1, 2)

\* bug variant: the second byte is shifted by 16 instead of 8
Manual32_BadShift(x) ==
    WordOr(WordOr(WordOr(ShiftRight(WordAnd(x, Mask(4, 4)), 3),
                         ShiftRight(WordAnd(x, Mask(4, 3)), 2)),
                  ShiftLeft(WordAnd(x, Mask(4, 2)), 1)),
           ShiftLeft(WordAnd(x, Mask(4, 1)), 3))

\* ((value & 0xFF000000) >> 24) | ((value & 0x00FF0000) >> 8) |
\* ((value & 0x0000FF00) << 8) | ((value & 0x000000FF) << 24)
Manual32(x) ==
    WordOr(WordOr(WordOr(ShiftRight(WordAnd(x, Mask(4, 4)), 3),
                         ShiftRight(WordAnd(x, Mask(4, 3)), 1)),
                  ShiftLeft(WordAnd(x, Mask(4, 2)), 1)),
           ShiftLeft(WordAnd(x, Mask(4, 1)), 3))

\* the eight masked and shifted terms of the 64-bit swap, or-ed together
Manual64(x) ==
    LET t8 == ShiftRight(WordAnd(x, Mask(8, 8)), 7)
        t7 == ShiftRight(WordAnd(x, Mask(8, 7)), 5)
        t6 == ShiftRight(WordAnd(x, Mask(8, 6)), 3)
        t5 == ShiftRight(WordAnd(x, Mask(8, 5)), 1)
        t4 == ShiftLeft(WordAnd(x, Mask(8, 4)), 1)
        t3 == ShiftLeft(WordAnd(x, Mask(8, 3)), 3)
        t2 == ShiftLeft(WordAnd(x, Mask(8, 2)), 5)
        t1 == ShiftLeft(WordAnd(x, Mask(8, 1)), 7)
    IN  WordOr(WordOr(WordOr(WordOr(WordOr(WordOr(WordOr(t8, t7), t6), t5), t4),
                             t3), t2), t1)

\* the builtin is used by a GCC or Clang build that is not an MSVC build and
\* whose compiler provides it
UsesBuiltin(b, name) ==
    /\ ~Defined(b, "_MSC_VER")
    /\ AnyDefined(b, {"__GNUC__", "__clang__"})
    /\ name \in b.builtins

\* detail::byteSwap16Impl and byteSwap16
byteSwap16(b, x) ==
    IF UsesBuiltin(b, "__builtin_bswap16") THEN Builtin(x) ELSE Manual16(x)

\* detail::byteSwap32Impl and byteSwap32
byteSwap32(b, x) ==
    IF UsesBuiltin(b, "__builtin_bswap32") THEN Builtin(x) ELSE Manual32(x)

\* detail::byteSwap64Impl and byteSwap64
byteSwap64(b, x) ==
    IF UsesBuiltin(b, "__builtin_bswap64") THEN Builtin(x) ELSE Manual64(x)

\* 2^N - d for an N-byte word d: complement and add one, modulo 2^N
Negate(d) ==
    Word([i \in 1..Len(d) |->
            IF \A j \in 1..(i - 1) : d[j] = 0
              THEN (256 - d[i]) % 256
              ELSE 255 - d[i]], Len(d))

\* static_cast<std::make_unsigned_t<Type>>(value): the value modulo 2^N
ToUnsigned(v) == IF v.neg THEN Negate(v.mag) ELSE v.mag

\* static_cast<Type>(swapped): the value of Type congruent to it modulo 2^N
FromUnsigned(T, u) ==
    IF T.signed /\ TopBit(u)
      THEN [neg |-> TRUE, mag |-> Negate(u)]
      ELSE [neg |-> FALSE, mag |-> u]

\* byteSwap<Type>
byteSwap(b, T, v) ==
    IF T.size = 1 THEN v
    ELSE IF T.size = 2 THEN FromUnsigned(T, byteSwap16(b, ToUnsigned(v)))
    ELSE IF T.size = 4 THEN FromUnsigned(T, byteSwap32(b, ToUnsigned(v)))
    ELSE FromUnsigned(T, byteSwap64(b, ToUnsigned(v)))

\* bug variant: the values are swapped on a big-endian host
hostToNetwork_SwapOnBig(b, T, v) ==
    IF isBigEndian(b) THEN byteSwap(b, T, v) ELSE v

\* hostToNetwork<Type>
hostToNetwork(b, T, v) ==
    IF isLittleEndian(b) THEN byteSwap(b, T, v) ELSE v

\* networkToHost<Type>
networkToHost(b, T, v) ==
    IF isLittleEndian(b) THEN byteSwap(b, T, v) ELSE v

\* byteSwap16, byteSwap32 or byteSwap64 by the width of the word
byteSwapN(b, x) ==
    IF Len(x) = 2 THEN byteSwap16(b, x)
    ELSE IF Len(x) = 4 THEN byteSwap32(b, x)
    ELSE byteSwap64(b, x)

NoRes == [op |-> "none"]

IdleEndian ==
    /\ build = [macros |-> {}, byte_order |-> "undef", bsd_byte_order |-> "undef",
                builtins |-> {}, first_byte |-> 4]
    /\ typ = [size |-> 1, signed |-> FALSE]
    /\ val = [neg |-> FALSE, mag |-> <<0>>]
    /\ res = NoRes

InitEndian ==
    /\ build \in Builds
    /\ typ \in IntegralTypes
    /\ val \in ValuesOf(typ)
    /\ res = NoRes

\* byteSwap(byteSwap(value)), as testGenericByteSwap applies byteSwap
ByteSwapTwice ==
    /\ res = NoRes
    /\ LET once == byteSwap(build, typ, val)
       IN  res' = [op |-> "byteSwap", once |-> once,
                   twice |-> byteSwap(build, typ, once)]
    /\ UNCHANGED <<build, typ, val>>
    /\ UNCHANGED <<initVars, versionVars, detectVars, debugVars>>

\* byteSwap16 / byteSwap32 / byteSwap64 applied twice to an unsigned value
FixedSwapTwice ==
    /\ res = NoRes
    /\ ~typ.signed
    /\ typ.size > 1
    /\ LET once == byteSwapN(build, val.mag)
       IN  res' = [op |-> "byteSwapN", once |-> once,
                   twice |-> byteSwapN(build, once)]
    /\ UNCHANGED <<build, typ, val>>
    /\ UNCHANGED <<initVars, versionVars, detectVars, debugVars>>

\* hostToNetwork, networkToHost and byteSwap, as testNetworkByteOrder
\* applies them
NetworkRoundTrip ==
    /\ res = NoRes
    /\ LET net == hostToNetwork(build, typ, val)
       IN  res' = [op |-> "network", net |-> net,
                   back |-> networkToHost(build, typ, net),
                   swapped |-> byteSwap(build, typ, val)]
    /\ UNCHANGED <<build, typ, val>>
    /\ UNCHANGED <<initVars, versionVars, detectVars, debugVars>>

\* enum class ByteOrder
ByteOrder == {"unknown", "little_endian", "big_endian", "mixed_endian"}

\* bug variant: an unknown order is compatible with nothing but itself
areByteOrdersCompatible_UnknownStrict(order1, order2) == order1 = order2

\* areByteOrdersCompatible
areByteOrdersCompatible(order1, order2) ==
    IF order1 = "unknown" \/ order2 = "unknown"
      THEN TRUE
      ELSE order1 = order2

\* convertByteOrder<Type>
convertByteOrder(b, T, v, from, to) ==
    IF areByteOrdersCompatible(from, to)
      THEN v
      ELSE byteSwap(b, T, v)

\* the builds convertByteOrder is applied in: one whose byteSwap uses the
\* builtins and one whose byteSwap is the manual implementation
InitConvert ==
    /\ build \in {b \in Builds : AnyDefined(b, {"__x86_64__", "_MSC_VER"})}
    /\ typ \in IntegralTypes
    /\ val \in ValuesOf(typ)
    /\ res = NoRes

\* convertByteOrder(value, from, to), with byteSwap(value) to compare with
ConvertByteOrder ==
    /\ res = NoRes
    /\ \E from \in ByteOrder, to \in ByteOrder :
          res' = [op |-> "convert", from |-> from, to |-> to,
                  converted |-> convertByteOrder(build, typ, val, from, to),
                  swapped |-> byteSwap(build, typ, val)]
    /\ UNCHANGED <<build, typ, val>>
    /\ UNCHANGED <<initVars, versionVars, detectVars, debugVars>>

\* ------------------------------------------------------------------------
\* The detection functions: no function has been evaluated
\* ------------------------------------------------------------------------
NoSig == [kind |-> "none"]

IdleDetect ==
    /\ sig = NoSig
    /\ out = NoSig

\* ------------------------------------------------------------------------
\* cpp_standard.hpp: the language standard and the language features
\* ------------------------------------------------------------------------
\* enum class CppStandard : long, each enumerator with its value
CppStandard ==
    [cpp_pre_17 |-> 0, cpp_17 |-> 201703, cpp_20 |-> 202002, cpp_23 |-> 202302,
     cpp_26 |-> 202600, cpp_unknown |-> -1]

\* the feature-test macros the feature predicates read
FeatureTestMacros ==
    {"__cpp_concepts", "__cpp_impl_coroutine", "__cpp_coroutines", "__cpp_modules",
     "__cpp_lib_ranges", "__cpp_consteval", "__cpp_constinit",
     "__cpp_designated_initializers", "__cpp_impl_three_way_comparison",
     "__cpp_structured_bindings", "__cpp_if_constexpr", "__cpp_fold_expressions",
     "__cpp_inline_variables"}

\* A build of a translation unit: __cplusplus is c, _MSVC_LANG is w (0: not
\* defined), and at most one feature-test macro f.name is defined, as f.value
CppBuild(c, w, f) ==
    [kind |-> "cpp",
     macros |-> {"__cplusplus"} \cup (IF w = 0 THEN {} ELSE {"_MSVC_LANG"})
                    \cup ({f.name} \cap FeatureTestMacros),
     value |-> [m \in {"__cplusplus", "_MSVC_LANG"} \cup FeatureTestMacros |->
                    IF m = "__cplusplus" THEN c
                    ELSE IF m = "_MSVC_LANG" THEN w
                    ELSE IF m = f.name THEN f.value ELSE 0]]

\* The builds: compilers that define __cplusplus only, and Microsoft's, which
\* defines _MSVC_LANG and leaves __cplusplus at 199711 unless asked not to
CppBuilds ==
    LET Plain == {<<c, 0>> : c \in {199711, 201103, 201402, 201703, 202002,
                                     202302, 202600}}
        Msvc == {<<c, w>> \in {199711, 201402, 201703, 202002, 202302}
                              \X {201402, 201703, 202002, 202302} :
                    c = 199711 \/ c = w}
        Signals == {[name |-> "none", value |-> 0]}
                     \cup [name : FeatureTestMacros, value : {201507, 201907, 202002}]
    IN  {CppBuild(v[1], v[2], f) : v \in Plain \cup Msvc, f \in Signals}

\* detail::detectCppStandard
detectCppStandard(b) ==
    LET cpp_version == IF Defined(b, "_MSVC_LANG") THEN b.value["_MSVC_LANG"]
                       ELSE IF Defined(b, "__cplusplus") THEN b.value["__cplusplus"]
                       ELSE 0
    IN  IF cpp_version >= 202600 THEN "cpp_26"
        ELSE IF cpp_version >= 202302 THEN "cpp_23"
        ELSE IF cpp_version >= 202002 THEN "cpp_20"
        ELSE IF cpp_version >= 201703 THEN "cpp_17"
        ELSE IF cpp_version >= 201402 \/ cpp_version >= 201103 \/ cpp_version >= 199711
          THEN "cpp_pre_17"
        ELSE "cpp_unknown"

\* getCppStandard
getCppStandard(b) == detectCppStandard(b)

\* bug variant: the fallback asks for a standard after the minimum one
FeatureTest_AfterMinimum(b, macro, threshold, min_standard) ==
    IF Defined(b, macro)
      THEN b.value[macro] >= threshold
      ELSE CppStandard[getCppStandard(b)] > CppStandard[min_standard]

\* bug variant: a feature-test macro counts only when the standard has
\* reached the minimum one as well
FeatureTest_SignalAndStandard(b, macro, threshold, min_standard) ==
    /\ CppStandard[getCppStandard(b)] >= CppStandard[min_standard]
    /\ Defined(b, macro) => b.value[macro] >= threshold

\* the body the feature predicates share: the feature-test macro when it is
\* defined, the standard otherwise
FeatureTest(b, macro, threshold, min_standard) ==
    IF Defined(b, macro)
      THEN b.value[macro] >= threshold
      ELSE CppStandard[getCppStandard(b)] >= CppStandard[min_standard]

\* hasConcepts, hasCoroutines, hasModules, hasRanges, hasConsteval,
\* hasConstinit, hasDesignatedInitializers, hasThreeWayComparison
Cpp20Features(b) ==
    [hasConcepts |-> FeatureTest(b, "__cpp_concepts", 201907, "cpp_20"),
     hasCoroutines |->
         IF Defined(b, "__cpp_impl_coroutine")
           THEN b.value["__cpp_impl_coroutine"] >= 201902
           ELSE FeatureTest(b, "__cpp_coroutines", 201902, "cpp_20"),
     hasModules |->
         IF Defined(b, "__cpp_modules")
           THEN b.value["__cpp_modules"] >= 201907
           ELSE FALSE,
     hasRanges |-> FeatureTest(b, "__cpp_lib_ranges", 201911, "cpp_20"),
     hasConsteval |-> FeatureTest(b, "__cpp_consteval", 201811, "cpp_20"),
     hasConstinit |-> FeatureTest(b, "__cpp_constinit", 201907, "cpp_20"),
     hasDesignatedInitializers |->
         FeatureTest(b, "__cpp_designated_initializers", 201707, "cpp_20"),
     hasThreeWayComparison |->
         FeatureTest(b, "__cpp_impl_three_way_comparison", 201907, "cpp_20")]

\* hasStructuredBindings, hasIfConstexpr, hasFoldExpressions,
\* hasInlineVariables
Cpp17Features(b) ==
    [hasStructuredBindings |->
         FeatureTest(b, "__cpp_structured_bindings", 201606, "cpp_17"),
     hasIfConstexpr |-> FeatureTest(b, "__cpp_if_constexpr", 201606, "cpp_17"),
     hasFoldExpressions |->
         FeatureTest(b, "__cpp_fold_expressions", 201603, "cpp_17"),
     hasInlineVariables |->
         FeatureTest(b, "__cpp_inline_variables", 201606, "cpp_17")]

\* the macros TRLC_CPP17, TRLC_CPP20, TRLC_CPP23, TRLC_CPP26
StandardMacros(b) ==
    LET AtLeast(n) == IF Defined(b, "__cplusplus") /\ b.value["__cplusplus"] >= n
                        THEN 1 ELSE 0
    IN  [TRLC_CPP17 |-> AtLeast(201703), TRLC_CPP20 |-> AtLeast(202002),
         TRLC_CPP23 |-> AtLeast(202302), TRLC_CPP26 |-> AtLeast(202600)]

\* the standard, the feature predicates and the macros of one build
EvalCppStandard ==
    /\ sig.kind = "cpp"
    /\ out = NoSig
    /\ out' = [kind |-> "cpp", standard |-> getCppStandard(sig),
               features |-> Cpp20Features(sig),
               features17 |-> Cpp17Features(sig),
               macros |-> StandardMacros(sig)]
    /\ UNCHANGED sig
    /\ UNCHANGED <<initVars, versionVars, endianVars, debugVars>>

\* ------------------------------------------------------------------------
\* architecture.hpp: the CPU architecture and what is derived from it
\* ------------------------------------------------------------------------
\* A build: the defined macros, the values of __riscv_xlen and _MIPS_SIM (0
\* when not defined; _ABI64 is 3 when defined) and sizeof(void*)
ArchBuild(macros, xlen, sim, ptr) ==
    [kind |-> "arch", macros |-> macros,
     value |-> [__riscv_xlen |-> xlen, _MIPS_SIM |-> sim,
                _ABI64 |-> IF "_ABI64" \in macros THEN 3 ELSE 0],
     sizeof_pointer |-> ptr]

ArchBuilds ==
    { ArchBuild({"__x86_64__", "__amd64__"}, 0, 0, 8),
      \* the x32 ABI of x86-64
      ArchBuild({"__x86_64__", "__amd64__", "__ILP32__"}, 0, 0, 4),
      ArchBuild({"_M_X64"}, 0, 0, 8),
      ArchBuild({"__i386__", "__i686__"}, 0, 0, 4),
      ArchBuild({"_M_IX86"}, 0, 0, 4),
      ArchBuild({"__aarch64__"}, 0, 0, 8),
      ArchBuild({"_M_ARM64"}, 0, 0, 8),
      ArchBuild({"__arm__", "__ARM_ARCH_8A__"}, 0, 0, 4),
      ArchBuild({"__arm__", "__ARM_ARCH_7A__"}, 0, 0, 4),
      ArchBuild({"__arm__", "__ARM_ARCH_6__"}, 0, 0, 4),
      ArchBuild({"__arm__"}, 0, 0, 4),
      ArchBuild({"_M_ARM"}, 0, 0, 4),
      ArchBuild({"__mips__", "__mips64", "_MIPS_SIM", "_ABI64"}, 0, 3, 8),
      ArchBuild({"__mips__", "_MIPS_SIM", "_ABI64"}, 0, 3, 8),
      ArchBuild({"__mips__", "_MIPS_SIM", "_ABI64"}, 0, 1, 4),
      \* a MIPS compiler that defines neither _MIPS_SIM nor _ABI64
      ArchBuild({"__mips__"}, 0, 0, 4),
      ArchBuild({"__powerpc__", "__powerpc64__"}, 0, 0, 8),
      ArchBuild({"__powerpc__"}, 0, 0, 4),
      ArchBuild({"__riscv", "__riscv_xlen"}, 64, 0, 8),
      ArchBuild({"__riscv", "__riscv_xlen"}, 32, 0, 4),
      ArchBuild({"__riscv"}, 0, 0, 8),
      ArchBuild({"__sparc__", "__sparcv9"}, 0, 0, 8),
      ArchBuild({"__sparc__"}, 0, 0, 4),
      \* architectures the classifier does not know
      ArchBuild({"__s390x__"}, 0, 0, 8),
      ArchBuild({"__m68k__"}, 0, 0, 4),
      ArchBuild({"__MSP430__"}, 0, 0, 2) }

\* detail::detectCpuArchitecture
detectCpuArchitecture(b) ==
    IF AnyDefined(b, {"__x86_64__", "__x86_64", "__amd64__", "__amd64", "_M_X64"})
      THEN "x86_64"
    ELSE IF AnyDefined(b, {"__i386__", "__i386", "__i486__", "__i586__", "__i686__",
                           "_M_IX86"})
      THEN "x86"
    ELSE IF AnyDefined(b, {"__aarch64__", "_M_ARM64"}) THEN "arm_v8_64"
    ELSE IF AnyDefined(b, {"__arm__", "_M_ARM"})
      THEN IF AnyDefined(b, {"__ARM_ARCH_8__", "__ARM_ARCH_8A__"}) THEN "arm_v8_32"
           ELSE IF AnyDefined(b, {"__ARM_ARCH_7__", "__ARM_ARCH_7A__", "__ARM_ARCH_7R__",
                                  "__ARM_ARCH_7M__", "__ARM_ARCH_7S__"})
             THEN "arm_v7"
           ELSE IF AnyDefined(b, {"__ARM_ARCH_6__", "__ARM_ARCH_6J__", "__ARM_ARCH_6K__",
                                  "__ARM_ARCH_6Z__", "__ARM_ARCH_6ZK__",
                                  "__ARM_ARCH_6T2__"})
             THEN "arm_v6"
           ELSE "arm_v7"
    ELSE IF AnyDefined(b, {"__mips__", "__mips", "__MIPS__"})
      THEN IF \/ AnyDefined(b, {"__mips64__", "__mips64"})
              \/ b.value["_MIPS_SIM"] = b.value["_ABI64"]
             THEN "mips_64"
             ELSE "mips"
    ELSE IF AnyDefined(b, {"__powerpc__", "__powerpc", "__ppc__", "__ppc", "_M_PPC"})
      THEN IF AnyDefined(b, {"__powerpc64__", "__ppc64__", "__PPC64__", "_ARCH_PPC64"})
             THEN "powerpc_64"
             ELSE "powerpc"
    ELSE IF Defined(b, "__riscv")
      THEN IF Defined(b, "__riscv_xlen") /\ b.value["__riscv_xlen"] = 64
             THEN "risc_v_64"
           ELSE IF Defined(b, "__riscv_xlen") /\ b.value["__riscv_xlen"] = 32
             THEN "risc_v_32"
           ELSE "risc_v_64"
    ELSE IF AnyDefined(b, {"__sparc__", "__sparc"})
      THEN IF AnyDefined(b, {"__sparc64__", "__sparcv9"}) THEN "sparc_64" ELSE "sparc"
    ELSE "unknown"

\* getCpuArchitecture
getCpuArchitecture(b) == detectCpuArchitecture(b)

\* bug variant: mips_64 is missing from the 64-bit cases
detectPointerSize_Mips64Missing(b) ==
    LET arch == detectCpuArchitecture(b)
    IN  IF arch \in {"x86_64", "arm_v8_64", "powerpc_64", "risc_v_64", "sparc_64"}
          THEN 64
        ELSE IF arch \in {"x86", "arm_v6", "arm_v7", "arm_v8_32", "mips", "mips_64",
                          "powerpc", "risc_v_32", "sparc"}
          THEN 32
        ELSE b.sizeof_pointer * 8

\* detail::detectPointerSize
detectPointerSize(b) ==
    LET arch == detectCpuArchitecture(b)
    IN  IF arch \in {"x86_64", "arm_v8_64", "mips_64", "powerpc_64", "risc_v_64",
                     "sparc_64"}
          THEN 64
        ELSE IF arch \in {"x86", "arm_v6", "arm_v7", "arm_v8_32", "mips", "powerpc",
                          "risc_v_32", "sparc"}
          THEN 32
        ELSE b.sizeof_pointer * 8

\* getArchitectureInfo: the architecture and the pointer size of the result
getArchitectureInfo(b) ==
    [architecture |-> detectCpuArchitecture(b),
     pointer_size_bits |-> detectPointerSize(b)]

\* ArchitectureInfo::is64Bit
is64Bit(info) == info.pointer_size_bits = 64

\* ArchitectureInfo::is32Bit
is32Bit(info) == info.pointer_size_bits = 32

\* hasSimdSupport
hasSimdSupport(b) ==
    getCpuArchitecture(b) \in {"x86", "x86_64", "arm_v7", "arm_v8_32", "arm_v8_64"}

\* hasVectorInstructions
hasVectorInstructions(b) ==
    getCpuArchitecture(b) \in {"x86_64", "arm_v8_64", "risc_v_64"}

\* getArchitectureInfo and the SIMD predicates of one build
EvalArchitecture ==
    /\ sig.kind = "arch"
    /\ out = NoSig
    /\ LET info == getArchitectureInfo(sig)
       IN  out' = [kind |-> "arch", info |-> info,
                   is64Bit |-> is64Bit(info), is32Bit |-> is32Bit(info),
                   hasSimdSupport |-> hasSimdSupport(sig),
                   hasVectorInstructions |-> hasVectorInstructions(sig)]
    /\ UNCHANGED sig
    /\ UNCHANGED <<initVars, versionVars, endianVars, debugVars>>

\* ------------------------------------------------------------------------
\* compiler.hpp: the compiler type and the TRLC_COMPILER_* macros
\* ------------------------------------------------------------------------
\* the toolchains: the compiler identity macros each of them defines
CompilerBuilds ==
    { [kind |-> "compiler", macros |-> ms] :
        ms \in { {"__GNUC__"},                                      \* GCC
                 {"__GNUC__", "__MINGW32__"},                       \* MinGW, 32-bit
                 {"__GNUC__", "__MINGW32__", "__MINGW64__"},        \* MinGW-w64
                 {"__clang__", "__GNUC__"},                         \* Clang
                 {"__clang__", "_MSC_VER"},                         \* clang-cl
                 {"__clang__", "__GNUC__", "__MINGW32__", "__MINGW64__"},
                                                   \* Clang with the MinGW target
                 {"_MSC_VER"},                                      \* MSVC
                 {"__INTEL_COMPILER", "__ICC", "__GNUC__"},         \* icc, Linux
                 {"__INTEL_COMPILER", "__ICL", "_MSC_VER"},         \* icl, Windows
                 {"__INTEL_COMPILER", "__clang__", "__GNUC__"},     \* Intel, LLVM-based
                 {} } }                                             \* none of them

\* bug variant: the GCC signal is tested before the Clang signal
getCompilerType_GccBeforeClang(b) ==
    IF AnyDefined(b, {"__INTEL_COMPILER", "__ICL", "__ICC"})
      THEN IF Defined(b, "__clang__") THEN "intel_llvm" ELSE "intel_classic"
    ELSE IF Defined(b, "__GNUC__")
      THEN IF AnyDefined(b, {"__MINGW32__", "__MINGW64__"}) THEN "mingw" ELSE "gcc"
    ELSE IF Defined(b, "__clang__") THEN "clang"
    ELSE IF Defined(b, "_MSC_VER") THEN "msvc"
    ELSE "unknown"

\* getCompilerType
getCompilerType(b) ==
    IF AnyDefined(b, {"__INTEL_COMPILER", "__ICL", "__ICC"})
      THEN IF Defined(b, "__clang__") THEN "intel_llvm" ELSE "intel_classic"
    ELSE IF Defined(b, "__clang__") THEN "clang"
    ELSE IF Defined(b, "__GNUC__")
      THEN IF AnyDefined(b, {"__MINGW32__", "__MINGW64__"}) THEN "mingw" ELSE "gcc"
    ELSE IF Defined(b, "_MSC_VER") THEN "msvc"
    ELSE "unknown"

\* the macros TRLC_COMPILER_GCC, TRLC_COMPILER_CLANG, TRLC_COMPILER_MSVC,
\* TRLC_COMPILER_INTEL, TRLC_COMPILER_INTEL_LLVM, TRLC_COMPILER_MINGW
CompilerMacros(b) ==
    LET Intel == AnyDefined(b, {"__INTEL_COMPILER", "__ICL", "__ICC"})
        Bit(c) == IF c THEN 1 ELSE 0
    IN  [TRLC_COMPILER_GCC |->
             IF Intel THEN 0
             ELSE IF Defined(b, "__clang__") THEN 0
             ELSE IF Defined(b, "__GNUC__")
               THEN IF AnyDefined(b, {"__MINGW32__", "__MINGW64__"}) THEN 0 ELSE 1
             ELSE 0,
         TRLC_COMPILER_CLANG |->
             IF Intel THEN 0
             ELSE IF Defined(b, "__clang__") THEN 1
             ELSE 0,
         TRLC_COMPILER_MSVC |->
             Bit(/\ Defined(b, "_MSC_VER")
                 /\ ~Defined(b, "__clang__")
                 /\ ~Defined(b, "__INTEL_COMPILER")),
         TRLC_COMPILER_INTEL |->
             Bit(Defined(b, "__INTEL_COMPILER") /\ ~Defined(b, "__clang__")),
         TRLC_COMPILER_INTEL_LLVM |-> Bit(Intel /\ Defined(b, "__clang__")),
         TRLC_COMPILER_MINGW |->
             Bit(/\ Defined(b, "__GNUC__")
                 /\ AnyDefined(b, {"__MINGW32__", "__MINGW64__"}))]

\* getCompilerType and the TRLC_COMPILER_* macros of one toolchain
EvalCompiler ==
    /\ sig.kind = "compiler"
    /\ out = NoSig
    /\ out' = [kind |-> "compiler", type |-> getCompilerType(sig),
               macros |-> CompilerMacros(sig)]
    /\ UNCHANGED sig
    /\ UNCHANGED <<initVars, versionVars, endianVars, debugVars>>

\* ------------------------------------------------------------------------
\* features.hpp: the runtime features
\* ------------------------------------------------------------------------
\* A build and the processor it runs on: the defined macros, and the bits
\* <<leaf, subleaf, register, bit>> the processor's CPUID instruction sets
\* (none where there is no such instruction)
FeatureBuilds ==
    LET Build(macros, cpu) ==
            [kind |-> "features", macros |-> macros,
             value |-> [__riscv_xlen |-> 0, _MIPS_SIM |-> 0, _ABI64 |-> 0],
             cpu |-> cpu]
        Sse2Cpu == {<<1, 0, 3, 25>>, <<1, 0, 3, 26>>}
        AvxCpu == Sse2Cpu \cup {<<1, 0, 2, 0>>, <<1, 0, 2, 19>>, <<1, 0, 2, 20>>,
                                <<1, 0, 2, 25>>, <<1, 0, 2, 28>>, <<1, 0, 2, 30>>,
                                <<7, 0, 1, 5>>, <<7, 0, 1, 16>>}
    IN  {Build(ms, cpu) :
            ms \in {{"__x86_64__", "__GNUC__"}, {"_M_X64", "_MSC_VER"},
                    {"__i386__", "__clang__", "__GNUC__"}, {"__i386__"}},
            cpu \in {{}, Sse2Cpu, AvxCpu}}
        \cup
        {Build(ms, {}) :
            ms \in {{"__aarch64__", "__GNUC__"},
                    {"__aarch64__", "__GNUC__", "__ARM_NEON", "__ARM_FEATURE_AES"},
                    {"_M_ARM64", "_MSC_VER"},
                    {"__arm__", "__GNUC__"},
                    {"__arm__", "__GNUC__", "__ARM_NEON"},
                    {"__arm__", "__GNUC__", "__ARM_NEON", "__ARM_FEATURE_AES"},
                    {"__arm__", "__GNUC__", "__ARM_FEATURE_AES"},
                    {"__riscv", "__GNUC__"}, {"__powerpc__", "__GNUC__"},
                    {"__mips__", "__GNUC__"}, {"__sparc__"}, {}}}

\* the macro TRLC_HAS_X86_INTRINSICS
TRLC_HAS_X86_INTRINSICS(b) ==
    AnyDefined(b, {"__x86_64__", "__i386__", "_M_X64", "_M_IX86"})

\* the macro TRLC_HAS_ARM_INTRINSICS
TRLC_HAS_ARM_INTRINSICS(b) == AnyDefined(b, {"__ARM_NEON", "__aarch64__"})

\* detail::checkCpuFeature, with detail::cpuid: the registers are zero when
\* the compiler is neither MSVC nor GCC nor Clang
checkCpuFeature(b, leaf, subleaf, reg, bit) ==
    LET regs == IF AnyDefined(b, {"_MSC_VER", "__GNUC__", "__clang__"})
                  THEN b.cpu
                  ELSE {}
    IN  <<leaf, subleaf, reg, bit>> \in regs

\* bug variant: the ARM branch of hasHardwareAes, copied
hasHardwareRandom_ArmBranch(b) ==
    IF TRLC_HAS_X86_INTRINSICS(b) THEN checkCpuFeature(b, 1, 0, 2, 30)
    ELSE IF TRLC_HAS_ARM_INTRINSICS(b) /\ Defined(b, "__ARM_FEATURE_AES") THEN TRUE
    ELSE FALSE

\* hasHardwareRandom
hasHardwareRandom(b) ==
    IF TRLC_HAS_X86_INTRINSICS(b) THEN checkCpuFeature(b, 1, 0, 2, 30) ELSE FALSE

\* hasHardwareAes
hasHardwareAes(b) ==
    IF TRLC_HAS_X86_INTRINSICS(b) THEN checkCpuFeature(b, 1, 0, 2, 25)
    ELSE IF TRLC_HAS_ARM_INTRINSICS(b) /\ Defined(b, "__ARM_FEATURE_AES") THEN TRUE
    ELSE FALSE

\* hasSseSupport, hasSse2Support, hasSse3Support, hasSse41Support,
\* hasSse42Support, hasAvxSupport, hasAvx2Support, hasAvx512fSupport, with
\* hasHardwareAes and hasHardwareRandom, by the name of the RuntimeFeature
RuntimeFeatures(b) ==
    LET Probe(leaf, subleaf, reg, bit) ==
            IF TRLC_HAS_X86_INTRINSICS(b)
              THEN checkCpuFeature(b, leaf, subleaf, reg, bit)
              ELSE FALSE
    IN  [sse |-> Probe(1, 0, 3, 25), sse2 |-> Probe(1, 0, 3, 26),
         sse3 |-> Probe(1, 0, 2, 0), sse4_1 |-> Probe(1, 0, 2, 19),
         sse4_2 |-> Probe(1, 0, 2, 20), avx |-> Probe(1, 0, 2, 28),
         avx2 |-> Probe(7, 0, 1, 5), avx512f |-> Probe(7, 0, 1, 16),
         hardware_aes |-> hasHardwareAes(b),
         hardware_random |-> hasHardwareRandom(b)]

\* the runtime features of one build on one processor
EvalRuntimeFeatures ==
    /\ sig.kind = "features"
    /\ out = NoSig
    /\ out' = [kind |-> "features", architecture |-> detectCpuArchitecture(sig),
               runtime |-> RuntimeFeatures(sig)]
    /\ UNCHANGED sig
    /\ UNCHANGED <<initVars, versionVars, endianVars, debugVars>>

\* ------------------------------------------------------------------------
\* endianness.hpp: EndiannessInfo
\* ------------------------------------------------------------------------
\* getEndiannessInfo
getEndiannessInfo(b) ==
    LET order == getByteOrder(b)
    IN  [byte_order |-> order,
         is_little_endian |-> order = "little_endian",
         is_big_endian |-> order = "big_endian"]

\* the values of the aggregate EndiannessInfo: what getEndiannessInfo()
\* returns in the builds, and what a caller initializes member by member
EndiannessInfos ==
    { [kind |-> "endian", info |-> i] :
        i \in {getEndiannessInfo(b) : b \in Builds}
                \cup [byte_order : ByteOrder, is_little_endian : BOOLEAN,
                      is_big_endian : BOOLEAN] }

\* EndiannessInfo::isNativeOrder
isNativeOrder(info, order) == info.byte_order = order

\* bug variant: the default case returns its argument
getOppositeByteOrder_DefaultSame(order) ==
    IF order = "little_endian" THEN "big_endian"
    ELSE IF order = "big_endian" THEN "little_endian"
    ELSE order

\* getOppositeByteOrder
getOppositeByteOrder(order) ==
    IF order = "little_endian" THEN "big_endian"
    ELSE IF order = "big_endian" THEN "little_endian"
    ELSE "unknown"

\* isNativeOrder on the order of an EndiannessInfo and on its opposite, as
\* testEndiannessInfo applies it
EvalEndiannessInfo ==
    /\ sig.kind = "endian"
    /\ out = NoSig
    /\ out' = [kind |-> "endian",
               native |-> isNativeOrder(sig.info, sig.info.byte_order),
               opposite |-> isNativeOrder(sig.info,
                                getOppositeByteOrder(sig.info.byte_order))]
    /\ UNCHANGED sig
    /\ UNCHANGED <<initVars, versionVars, endianVars, debugVars>>

\* ------------------------------------------------------------------------
\* platform.hpp: the operating system and PlatformInfo
\* ------------------------------------------------------------------------
\* the targets: the operating system macros each of them defines, and the
\* value of TARGET_OS_IPHONE (0 where it is not defined)
OsBuilds ==
    { [kind |-> "platform", macros |-> t[1], value |-> [TARGET_OS_IPHONE |-> t[2]]] :
        t \in { <<{"__ANDROID__", "__linux__"}, 0>>,
                <<{"__APPLE__", "__MACH__", "TARGET_OS_IPHONE"}, 1>>,
                <<{"__APPLE__", "__MACH__", "TARGET_OS_IPHONE"}, 0>>,
                <<{"__APPLE__", "__MACH__"}, 0>>,
                <<{"_WIN32"}, 0>>, <<{"_WIN32", "_WIN64"}, 0>>, <<{"__CYGWIN__"}, 0>>,
                <<{"__FreeBSD__"}, 0>>, <<{"__OpenBSD__"}, 0>>, <<{"__NetBSD__"}, 0>>,
                <<{"__linux__", "__gnu_linux__"}, 0>>,
                \* a target without an operating system, and Solaris
                <<{}, 0>>, <<{"__sun"}, 0>> } }

\* getOperatingSystem
getOperatingSystem(b) ==
    IF Defined(b, "__ANDROID__") THEN "android"
    ELSE IF /\ Defined(b, "__APPLE__")
            /\ Defined(b, "TARGET_OS_IPHONE")
            /\ b.value["TARGET_OS_IPHONE"] # 0
      THEN "ios"
    ELSE IF Defined(b, "__APPLE__") /\ Defined(b, "__MACH__") THEN "macos"
    ELSE IF AnyDefined(b, {"_WIN32", "_WIN64", "__CYGWIN__"}) THEN "windows"
    ELSE IF Defined(b, "__FreeBSD__") THEN "freebsd"
    ELSE IF Defined(b, "__OpenBSD__") THEN "openbsd"
    ELSE IF Defined(b, "__NetBSD__") THEN "netbsd"
    ELSE IF AnyDefined(b, {"__linux__", "__gnu_linux__"}) THEN "linux_generic"
    ELSE "unknown"

\* getPlatformInfo: the os and the kernel_family of the result, the string
\* as the sequence of its characters
getPlatformInfo(b) ==
    LET os == getOperatingSystem(b)
    IN  [os |-> os,
         kernel_family |->
             IF os = "windows" THEN <<"n", "t">>
             ELSE IF os \in {"linux_generic", "ubuntu", "debian", "redhat", "android"}
               THEN <<"p", "o", "s", "i", "x">>
             ELSE IF os \in {"macos", "freebsd", "openbsd", "netbsd", "ios"}
               THEN <<"u", "n", "i", "x">>
             ELSE <<"u", "n", "k", "n", "o", "w", "n">>]

\* PlatformInfo::isPosix
isPosix(info) ==
    \/ info.kernel_family[1] = "p" /\ info.kernel_family[2] = "o"
    \/ info.kernel_family[1] = "u" /\ info.kernel_family[2] = "n"

\* getPlatformInfo().isPosix() in one build
EvalPlatformInfo ==
    /\ sig.kind = "platform"
    /\ out = NoSig
    /\ LET info == getPlatformInfo(sig)
       IN  out' = [kind |-> "platform", info |-> info, isPosix |-> isPosix(info)]
    /\ UNCHANGED sig
    /\ UNCHANGED <<initVars, versionVars, endianVars, debugVars>>

\* ------------------------------------------------------------------------
\* debug.hpp: the assertion handler
\* ------------------------------------------------------------------------
NumHandlers == 2

\* the handlers of the application
HandlerTable == <<"testAssertionHandler", "customHandler", "loggingHandler">>

\* the values an AssertionHandler argument can have
Handlers ==
    {"nullptr", "defaultAssertionHandler"}
        \cup {HandlerTable[i] : i \in 1..NumHandlers}

NoGet == [returned |-> "none", lastSet |-> "none"]

\* DebugUtils::_assertion_handler{defaultAssertionHandler}
InitAssertionHandler ==
    /\ assertion_handler = "defaultAssertionHandler"
    /\ hpc = [t \in Threads |-> "idle"]
    /\ setArg = [t \in Threads |-> "nullptr"]
    /\ handler = [t \in Threads |-> "nullptr"]
    /\ lastSet = "none"
    /\ got = NoGet

\* bug variant: a null argument is not replaced by the default handler
SetAssertionHandlerBegin_NullKept(t, h) ==
    /\ hpc[t] = "idle"
    /\ hpc' = [hpc EXCEPT ![t] = "store"]
    /\ setArg' = [setArg EXCEPT ![t] = h]
    /\ handler' = [handler EXCEPT ![t] = h]
    /\ UNCHANGED <<assertion_handler, lastSet, got>>
    /\ UNCHANGED <<initVars, versionVars, endianVars, detectVars>>

\* setAssertionHandler(h), up to the store: a null argument becomes the
\* default handler
SetAssertionHandlerBegin(t, h) ==
    /\ hpc[t] = "idle"
    /\ hpc' = [hpc EXCEPT ![t] = "store"]
    /\ setArg' = [setArg EXCEPT ![t] = h]
    /\ handler' = [handler EXCEPT ![t] =
                       IF h = "nullptr" THEN "defaultAssertionHandler" ELSE h]
    /\ UNCHANGED <<assertion_handler, lastSet, got>>
    /\ UNCHANGED <<initVars, versionVars, endianVars, detectVars>>

\* setAssertionHandler: _assertion_handler.store(handler), and the return
SetAssertionHandlerStore(t) ==
    /\ hpc[t] = "store"
    /\ assertion_handler' = handler[t]
    /\ lastSet' = setArg[t]
    /\ hpc' = [hpc EXCEPT ![t] = "idle"]
    /\ setArg' = [setArg EXCEPT ![t] = "nullptr"]
    /\ handler' = [handler EXCEPT ![t] = "nullptr"]
    /\ UNCHANGED got
    /\ UNCHANGED <<initVars, versionVars, endianVars, detectVars>>

\* getAssertionHandler: _assertion_handler.load()
GetAssertionHandler(t) ==
    /\ hpc[t] = "idle"
    /\ got' = [returned |-> assertion_handler, lastSet |-> lastSet]
    /\ UNCHANGED <<assertion_handler, hpc, setArg, handler, lastSet>>
    /\ UNCHANGED <<initVars, versionVars, endianVars, detectVars>>

NextDebug ==
    \/ \E t \in Threads, h \in Handlers : SetAssertionHandlerBegin(t, h)
    \/ \E t \in Threads : SetAssertionHandlerStore(t)
    \/ \E t \in Threads : GetAssertionHandler(t)

Init == InitPlatformState /\ IdleVersion /\ IdleEndian /\ IdleDetect /\ InitAssertionHandler

\* the program as built: the try block holds the release store only, which
\* cannot throw
Spec == Init /\ [][Next]_vars

\* every thread that is inside a call keeps being scheduled
FairSpec == Spec /\ \A t \in Threads : WF_vars(Step(t))

\* the program with setup work that may throw inside the try block
NextThrow ==
    \/ Next
    \/ \E t \in Threads : SetupThrows(t)

SpecThrow == Init /\ [][NextThrow]_vars

\* the same program with every thread that is inside a call being scheduled
FairSpecThrow == SpecThrow /\ \A t \in Threads : WF_vars(Step(t) \/ SetupThrows(t))

\* the relational operators of CompilerVersion on three versions
VersionInit ==
    InitPlatformState /\ InitVersion /\ IdleEndian /\ IdleDetect /\ InitAssertionHandler

VersionSpec == VersionInit /\ [][CompareVersions]_vars

\* the byte swapping and network byte order functions on one value
NextEndian ==
    \/ ByteSwapTwice
    \/ FixedSwapTwice
    \/ NetworkRoundTrip

EndianInit ==
    InitPlatformState /\ IdleVersion /\ InitEndian /\ IdleDetect /\ InitAssertionHandler

EndianSpec == EndianInit /\ [][NextEndian]_vars

\* convertByteOrder on one value and two byte orders
ConvertInit ==
    InitPlatformState /\ IdleVersion /\ InitConvert /\ IdleDetect /\ InitAssertionHandler

ConvertSpec == ConvertInit /\ [][ConvertByteOrder]_vars

\* ------------------------------------------------------------------------
\* core.hpp: Version
\* ------------------------------------------------------------------------

\* Version::MAJOR, Version::MINOR, Version::PATCH
Version == [MAJOR |-> 1, MINOR |-> 0, PATCH |-> 0]

\* x << k on uint32_t: the low 32 - k bits of x, moved up by k
ShiftLeft32(x, k) == (x % 2^(32 - k)) * 2^k

\* Version::asInteger
asInteger ==
    BitOr(BitOr(ShiftLeft32(Version.MAJOR, 16), ShiftLeft32(Version.MINOR, 8)),
          Version.PATCH)

\* Version::isAtLeast
isAtLeast(major, minor, patch) ==
    LET current == asInteger
        required == BitOr(BitOr(ShiftLeft32(major, 16), ShiftLeft32(minor, 8)), patch)
    IN  current >= required

\* the non-negative int arguments of isAtLeast: small values and the first
\* values that do not fit the 8 bits of minor and patch or the 16 bits of
\* major
VersionArgs == {0, 1, 2, 2^8, 2^9, 2^16}

VersionRequests ==
    [kind : {"isAtLeast"}, major : VersionArgs, minor : VersionArgs,
     patch : VersionArgs]

EvalIsAtLeast ==
    /\ sig.kind = "isAtLeast"
    /\ out = NoSig
    /\ out' = [kind |-> "isAtLeast",
               result |-> isAtLeast(sig.major, sig.minor, sig.patch)]
    /\ UNCHANGED sig
    /\ UNCHANGED <<initVars, versionVars, endianVars, debugVars>>

\* ------------------------------------------------------------------------
\* compiler.hpp: getCompilerVersion
\* ------------------------------------------------------------------------

\* the compiler identity macros that getCompilerType and getCompilerVersion
\* test
IdentityMacros ==
    {"__INTEL_COMPILER", "__ICL", "__ICC", "__clang__", "__GNUC__",
     "__MINGW32__", "__MINGW64__", "_MSC_VER"}

\* every combination of the identity macros, with or without
\* __GNUC_PATCHLEVEL__, and the values the version macros expand to
CompilerSignals ==
    { [kind |-> "compiler_id", macros |-> ids \cup pl,
       value |-> [__INTEL_COMPILER |-> icc, _MSC_VER |-> msc,
                  __clang_major__ |-> 17, __clang_minor__ |-> 0,
                  __clang_patchlevel__ |-> 6,
                  __GNUC__ |-> 4, __GNUC_MINOR__ |-> 2,
                  __GNUC_PATCHLEVEL__ |-> 1]] :
        ids \in SUBSET IdentityMacros,
        pl \in {{}, {"__GNUC_PATCHLEVEL__"}},
        icc \in {1900, 2021},
        msc \in {1800, 1916, 1944} }

\* CompilerVersion(major, minor, patch)
MakeVersion(major, minor, patch) ==
    [major |-> major, minor |-> minor, patch |-> patch]

\* the Intel rule: __INTEL_COMPILER split into its digits
IntelVersion(v) == MakeVersion(v \div 100, (v % 100) \div 10, v % 10)

\* the Clang rule
ClangVersion(b) ==
    MakeVersion(b.value.__clang_major__, b.value.__clang_minor__,
                b.value.__clang_patchlevel__)

\* the GCC rule
GnucVersion(b) ==
    IF Defined(b, "__GNUC_PATCHLEVEL__")
      THEN MakeVersion(b.value.__GNUC__, b.value.__GNUC_MINOR__,
                       b.value.__GNUC_PATCHLEVEL__)
      ELSE MakeVersion(b.value.__GNUC__, b.value.__GNUC_MINOR__, 0)

\* the MSVC rule: the thresholds of _MSC_VER
MsvcVersion(v) ==
    IF v >= 1940 THEN MakeVersion(19, 4, v - 1940)
    ELSE IF v >= 1930 THEN MakeVersion(19, 3, v - 1930)
    ELSE IF v >= 1920 THEN MakeVersion(19, 2, v - 1920)
    ELSE IF v >= 1910 THEN MakeVersion(19, 1, v - 1910)
    ELSE IF v >= 1900 THEN MakeVersion(19, 0, v - 1900)
    ELSE MakeVersion(v \div 100, (v % 100) \div 10, v % 10)

\* getCompilerVersion
getCompilerVersion(b) ==
    IF Defined(b, "__INTEL_COMPILER") THEN IntelVersion(b.value.__INTEL_COMPILER)
    ELSE IF Defined(b, "__clang__") THEN ClangVersion(b)
    ELSE IF Defined(b, "__GNUC__") THEN GnucVersion(b)
    ELSE IF Defined(b, "_MSC_VER") THEN MsvcVersion(b.value._MSC_VER)
    ELSE MakeVersion(0, 0, 0)

\* getCompilerType and getCompilerVersion under one combination of signals
EvalCompilerVersion ==
    /\ sig.kind = "compiler_id"
    /\ out = NoSig
    /\ out' = [kind |-> "compiler_id", type |-> getCompilerType(sig),
               version |-> getCompilerVersion(sig)]
    /\ UNCHANGED sig
    /\ UNCHANGED <<initVars, versionVars, endianVars, debugVars>>

\* ------------------------------------------------------------------------
\* endianness.hpp: byte order detection per build
\* ------------------------------------------------------------------------

\* a build without byte order macros: the defined macros and the first byte
\* in memory of 0x01020304
SignalBuild(macros, first_byte) ==
    [kind |-> "byteorder", macros |-> macros, byte_order |-> "undef",
     bsd_byte_order |-> "undef", builtins |-> {}, first_byte |-> first_byte]

\* the builds of the byte swapping functions, and builds that give nothing
\* but the identity of their architecture
ByteOrderBuilds ==
    { [kind |-> "byteorder", macros |-> b.macros, byte_order |-> b.byte_order,
       bsd_byte_order |-> b.bsd_byte_order, builtins |-> b.builtins,
       first_byte |-> b.first_byte] : b \in Builds }
    \cup { SignalBuild({m}, 4) :
             m \in {"__i386__", "__x86_64__", "__amd64__", "_M_IX86", "_M_X64",
                    "_M_AMD64", "__aarch64__", "_M_ARM64", "__riscv"} }
    \cup { SignalBuild({"__riscv", "__riscv_xlen"}, 4),
           SignalBuild({"__i386__", "__i686__"}, 4),
           SignalBuild({"__x86_64__", "__amd64__"}, 4),
           SignalBuild({"__sparc__"}, 1),
           SignalBuild({"__sparc"}, 1),
           SignalBuild({"__sparc__", "__sparcv9"}, 1),
           SignalBuild({"__mips__", "__MIPSEB__"}, 1),
           SignalBuild({"__mips__", "__MIPSEL__"}, 4),
           SignalBuild({"__powerpc__", "__BIG_ENDIAN__"}, 1),
           SignalBuild({"__powerpc__", "__LITTLE_ENDIAN__"}, 4),
           SignalBuild({"__powerpc__", "_POWER"}, 1),
           SignalBuild({"__arm__", "__ARMEL__"}, 4),
           SignalBuild({"__arm__", "__ARMEB__"}, 1),
           SignalBuild({"_WIN32", "_M_ARM64"}, 4),
           SignalBuild({"__s390x__"}, 1) }

\* getByteOrder of one build: the compile-time result, whether the else
\* branch with the runtime probe is taken, and the result
EvalByteOrder ==
    /\ sig.kind = "byteorder"
    /\ out = NoSig
    /\ LET compile_time_order == detectByteOrderCompileTime(sig)
       IN  out' = [kind |-> "byteorder",
                   compile_time_order |-> compile_time_order,
                   probed |-> ~(compile_time_order # "unknown"),
                   order |-> getByteOrder(sig)]
    /\ UNCHANGED sig
    /\ UNCHANGED <<initVars, versionVars, endianVars, debugVars>>

\* ------------------------------------------------------------------------
\* features.hpp, traits.hpp, core.hpp: the runtime features by name
\* ------------------------------------------------------------------------

\* enum class RuntimeFeature
RuntimeFeature ==
    {"sse", "sse2", "sse3", "sse4_1", "sse4_2", "avx", "avx2", "avx512f", "neon",
     "hardware_aes", "hardware_random"}

\* hasNeonSupport
hasNeonSupport(b) ==
    IF TRLC_HAS_ARM_INTRINSICS(b)
      THEN IF Defined(b, "__ARM_NEON") THEN TRUE
           ELSE IF Defined(b, "__aarch64__") THEN TRUE
           ELSE FALSE
      ELSE FALSE

\* hasRuntimeFeature(RuntimeFeature): the probing function of the feature
hasRuntimeFeature(b, feature) ==
    IF feature = "neon" THEN hasNeonSupport(b)
    ELSE IF feature \in DOMAIN RuntimeFeatures(b) THEN RuntimeFeatures(b)[feature]
    ELSE FALSE

\* getFeatureSet: the runtime fields has_sse .. has_hardware_random of the
\* result, by the name of their feature
getFeatureSet(b) == [feature \in RuntimeFeature |-> FALSE]

\* FeatureSet::hasRuntimeFeature
FeatureSetHasRuntimeFeature(set, feature) ==
    IF feature \in DOMAIN set THEN set[feature] ELSE FALSE

\* getPlatformReport: the features member of the report
getPlatformReport(b) == [features |-> getFeatureSet(b)]

\* the template hasRuntimeFeature<TFeature>(): the specializations for sse
\* .. neon, the primary template for the other features
hasRuntimeFeatureTemplate(b, TFeature) ==
    IF TFeature \in {"sse", "sse2", "sse3", "sse4_1", "sse4_2", "avx", "avx2",
                     "avx512f"}
      THEN RuntimeFeatures(b)[TFeature]
    ELSE IF TFeature = "neon" THEN hasNeonSupport(b)
    ELSE FeatureSetHasRuntimeFeature(getFeatureSet(b), TFeature)

\* a program asks for every runtime feature in each of the four ways;
\* initialized tells whether a call of initializePlatform() had returned
QueryRuntimeFeatures ==
    /\ sig.kind = "features"
    /\ out = NoSig
    /\ out' = [kind |-> "query",
               initialized |-> \E t \in Threads : ended[t] # "none",
               function |-> [f \in RuntimeFeature |-> hasRuntimeFeature(sig, f)],
               template |->
                   [f \in RuntimeFeature |-> hasRuntimeFeatureTemplate(sig, f)],
               feature_set |->
                   [f \in RuntimeFeature |->
                       FeatureSetHasRuntimeFeature(getFeatureSet(sig), f)],
               report |->
                   [f \in RuntimeFeature |->
                       FeatureSetHasRuntimeFeature(getPlatformReport(sig).features,
                                                   f)]]
    /\ UNCHANGED sig
    /\ UNCHANGED <<initVars, versionVars, endianVars, debugVars>>

\* the detection functions, each evaluated in the builds it depends on
InitDetect ==
    /\ sig \in CppBuilds \cup ArchBuilds \cup CompilerBuilds \cup FeatureBuilds
                \cup EndiannessInfos \cup OsBuilds \cup VersionRequests
                \cup CompilerSignals \cup ByteOrderBuilds
    /\ out = NoSig

NextDetect ==
    \/ EvalCppStandard
    \/ EvalArchitecture
    \/ EvalCompiler
    \/ EvalRuntimeFeatures
    \/ EvalEndiannessInfo
    \/ EvalPlatformInfo
    \/ EvalIsAtLeast
    \/ EvalCompilerVersion
    \/ EvalByteOrder

DetectInit ==
    InitPlatformState /\ IdleVersion /\ IdleEndian /\ InitDetect /\ InitAssertionHandler

DetectSpec == DetectInit /\ [][NextDetect]_vars

\* threads that call initializePlatform() in a program that asks for the
\* runtime features of its build and processor
ReportInit ==
    /\ InitPlatformState /\ IdleVersion /\ IdleEndian /\ InitAssertionHandler
    /\ sig \in FeatureBuilds
    /\ out = NoSig

NextReport ==
    \/ Next
    \/ QueryRuntimeFeatures

ReportSpec == ReportInit /\ [][NextReport]_vars

\* threads that set and get the assertion handler
DebugSpec == Init /\ [][NextDebug]_vars

\* ------------------------------------------------------------------------
\* Properties of the initialization state machine
\* ------------------------------------------------------------------------

\* C1: of the callers of initializePlatform() exactly one succeeds in the
\* compare-and-set on the in-progress flag and performs the setup; no second
\* caller ever wins it or runs the setup.
C1_ExactlyOneWinner == casWins <= 1 /\ setupRuns <= 1

\* C2: under fair scheduling every call of initializePlatform() that is under
\* way eventually returns.
C2_EveryCallReturns == \A t \in Threads : (pc[t] # "idle") ~> (pc[t] = "idle")

\* every thread has returned from a call, one as the winner and one out of
\* the spin-wait loop
C2_Witness ==
    /\ \A t \in Threads : pc[t] = "idle" /\ ended[t] # "none"
    /\ \E t \in Threads : ended[t] = "winner"
    /\ \E t \in Threads : ended[t] = "spin"

\* C3: once any call of initializePlatform() has returned,
\* isPlatformInitialized() is true.
C3_ReturnedImpliesInitialized ==
    (\E t \in Threads : ended[t] # "none") => isPlatformInitialized

\* a winner, a spin-waiting loser and a fast-path caller have all returned
C3_Witness ==
    /\ \E t \in Threads : ended[t] = "winner"
    /\ \E t \in Threads : ended[t] = "spin"
    /\ \E t \in Threads : ended[t] = "fast"
    /\ isPlatformInitialized

\* C4: the DONE flag starts false, and once it is true no operation makes it
\* false again (its only change is the one from false to true).
C4_DoneIsTerminal ==
    /\ []((\A t \in Threads : calls[t] = 0) => ~g_platform_initialized)
    /\ [][g_platform_initialized => g_platform_initialized']_vars

\* the DONE flag is set and a later call has started and finished
C4_Witness ==
    /\ g_platform_initialized
    /\ \E t \in Threads : calls[t] = MaxCalls /\ pc[t] = "idle" /\ ended[t] = "fast"
    /\ \E t \in Threads : ended[t] = "winner"

\* C5: a call that begins after the DONE flag is set only reads that flag:
\* it is never at the compare-and-set, in the spin-wait or in the setup, it
\* changes neither flag, and its one step is the return of the fast path.
C5_LateCallIsNoOp ==
    /\ [](\A t \in Threads :
            (pc[t] # "idle" /\ beganDone[t]) => pc[t] = "check")
    /\ [][\A t \in Threads :
            (pc[t] = "check" /\ beganDone[t] /\ pc'[t] # pc[t]) =>
                /\ pc'[t] = "idle"
                /\ ended'[t] = "fast"
                /\ UNCHANGED <<g_platform_initialized,
                               g_initialization_in_progress>>]_vars

\* a call that began with the DONE flag set has returned by the fast path
C5_Witness ==
    \E t \in Threads : beganDone[t] /\ pc[t] = "idle" /\ ended[t] = "fast"

C7_FailureClearsAndIsSwallowed ==
    /\ [](g_initialization_in_progress =>
            \E t \in Threads : pc[t] \in {"setup", "store", "clear"})
    /\ [][\A t \in Threads :
            (pc[t] = "setup" /\ pc'[t] # "setup" /\ pc'[t] # "store") =>
                /\ g_initialization_in_progress' = FALSE
                /\ pc'[t] = "idle"
                /\ ended'[t] = "caught"]_vars

\* after a caught failure another caller has won the compare-and-set and is
\* retrying the setup
C7_Witness ==
    /\ ~g_platform_initialized
    /\ \E t, u \in Threads :
          /\ t # u
          /\ pc[t] = "idle" /\ ended[t] = "caught"
          /\ pc[u] = "setup"

\* the threads between a successful compare-and-set of the in-progress flag
\* and the clearing of that flag
InSetupSection == {t \in Threads : pc[t] \in {"setup", "store", "clear"}}

\* C22: at any moment at most one thread is between a successful
\* compare-and-set of the in-progress flag and the subsequent clearing of
\* that flag, so the setup section of initializePlatform() is never executed
\* by two threads at the same time.
C22_SetupSectionExclusive == Cardinality(InSetupSection) <= 1

\* one thread is in the setup section while a second one, which lost the
\* compare-and-set, spin-waits and a third is about to try it
C22_Witness ==
    \E t, u, v \in Threads :
        /\ pc[t] = "setup"
        /\ pc[u] = "spin"
        /\ pc[v] = "cas"
        /\ g_initialization_in_progress

\* a caller that won the compare-and-set has finished, by the normal path
\* or by the catch handler
WinnerFinished ==
    \E u \in Threads : pc[u] = "idle" /\ ended[u] \in {"winner", "caught"}

LexLess(a, b) ==
    \/ a.major < b.major
    \/ a.major = b.major /\ a.minor < b.minor
    \/ a.major = b.major /\ a.minor = b.minor /\ a.patch < b.patch

Consistent(r, a, b) ==
    /\ r.lt = LexLess(a, b)
    /\ r.eq = (a = b)
    /\ r.gt = LexLess(b, a)
    /\ (IF r.lt THEN 1 ELSE 0) + (IF r.eq THEN 1 ELSE 0) + (IF r.gt THEN 1 ELSE 0) = 1
    /\ r.le = (r.lt \/ r.eq)
    /\ r.ge = ~r.lt
    /\ r.ne = ~r.eq

\* C8: the comparison of CompilerVersion values is the lexicographic strict
\* total order on (major, minor, patch): exactly one of a<b, a==b, a>b holds,
\* a<=b iff a<b or a==b, a>=b iff not a<b, a!=b iff not a==b, a>b iff b<a,
\* and a<b and b<c imply a<c.
C8_VersionTotalOrder ==
    rel.done =>
        /\ Consistent(rel.ab, va, vb)
        /\ Consistent(rel.ba, vb, va)
        /\ Consistent(rel.bc, vb, vc)
        /\ Consistent(rel.ac, va, vc)
        /\ rel.ab.gt = rel.ba.lt
        /\ (rel.ab.lt /\ rel.bc.lt) => rel.ac.lt

\* three versions that differ only in the last component have been compared
C8_Witness ==
    /\ rel.done
    /\ va.major = vb.major /\ va.minor = vb.minor
    /\ vb.major = vc.major /\ vb.minor = vc.minor
    /\ rel.ab.lt /\ rel.bc.lt /\ rel.ac.lt

\* ------------------------------------------------------------------------
\* Properties of the byte order utilities
\* ------------------------------------------------------------------------

\* C9: byteSwap applied twice returns the value, for every integral type of
\* 1, 2, 4 or 8 bytes, signed or unsigned, with 1-byte values unchanged by
\* one application; byteSwap16/32/64 applied twice return the value.
C9_ByteSwapInvolution ==
    /\ res.op = "byteSwap" =>
          /\ res.twice = val
          /\ typ.size = 1 => res.once = val
    /\ res.op = "byteSwapN" => res.twice = val.mag

\* a negative 8-byte value has been swapped twice, and one swap changed it
C9_Witness ==
    /\ res.op = "byteSwap"
    /\ typ.size = 8 /\ typ.signed /\ val.neg
    /\ res.once # val
    /\ res.twice = val

\* the host stores the least (most) significant byte first
HostIsLittle == build.first_byte = 4

HostIsBig == build.first_byte = 1

\* C10: networkToHost(hostToNetwork(v)) is v; on a little-endian host
\* hostToNetwork(v) is byteSwap(v), on a big-endian host it is v.
C10_NetworkRoundTrip ==
    res.op = "network" =>
        /\ res.back = val
        /\ HostIsLittle => res.net = res.swapped
        /\ HostIsBig => res.net = val

\* a 4-byte value has gone to network order and back on a little-endian
\* host, and network order differs from host order
C10_Witness ==
    /\ res.op = "network"
    /\ HostIsLittle
    /\ typ.size = 4
    /\ res.net # val
    /\ res.back = val

\* C11: convertByteOrder(v, from, to) returns v when from and to are equal or
\* either of them is unknown, and byteSwap(v) when they are two different
\* known orders.
C11_ConvertByteOrder ==
    res.op = "convert" =>
        IF res.from = res.to \/ res.from = "unknown" \/ res.to = "unknown"
          THEN res.converted = val
          ELSE res.converted = res.swapped

\* a 4-byte value has been converted from little-endian to big-endian, and
\* the conversion changed it
C11_Witness ==
    /\ res.op = "convert"
    /\ res.from = "little_endian" /\ res.to = "big_endian"
    /\ typ.size = 4
    /\ res.converted # val
    /\ res.converted = res.swapped

\* ------------------------------------------------------------------------
\* Properties of the language standard detection
\* ------------------------------------------------------------------------

\* no feature-test macro is defined in the build
NoFeatureSignal == sig.macros \cap FeatureTestMacros = {}

\* the feature predicates f agree with the standard: available from C++20
\* on, unavailable at exactly C++17
FollowStandard(fs) ==
    \A f \in fs :
        /\ CppStandard[out.standard] >= CppStandard["cpp_20"] => out.features[f]
        /\ out.standard = "cpp_17" => ~out.features[f]

\* C12 as stated: with no feature-test macro defined, each of the eight
\* C++20 feature predicates (modules among them) reports available when the
\* detected standard is at least C++20 and unavailable when it is C++17.
C12_AllCpp20FeaturesFollowStandard ==
    (out.kind = "cpp" /\ NoFeatureSignal) =>
        FollowStandard(DOMAIN out.features)

\* C12, amended: with no feature-test macro defined, each C++20 feature
\* predicate other than hasModules reports available when the detected
\* standard is at least C++20 and unavailable when it is C++17; hasModules
\* reports unavailable at every standard.
C12_Cpp20FeaturesFollowStandard ==
    (out.kind = "cpp" /\ NoFeatureSignal) =>
        /\ FollowStandard(DOMAIN out.features \ {"hasModules"})
        /\ ~out.features["hasModules"]

\* a C++20 build without feature-test macros has been classified: concepts
\* are available, modules are not
C12_Witness ==
    /\ out.kind = "cpp"
    /\ NoFeatureSignal
    /\ out.standard = "cpp_20"
    /\ out.features["hasConcepts"]
    /\ ~out.features["hasModules"]

\* C19 as stated: in every build TRLC_CPP17 is 1 exactly when
\* getCppStandard() is at least cpp_17, and likewise TRLC_CPP20, TRLC_CPP23
\* and TRLC_CPP26 for cpp_20, cpp_23 and cpp_26.
C19_MacrosAgreeWithStandard ==
    out.kind = "cpp" =>
        \A p \in {<<"TRLC_CPP17", "cpp_17">>, <<"TRLC_CPP20", "cpp_20">>,
                  <<"TRLC_CPP23", "cpp_23">>, <<"TRLC_CPP26", "cpp_26">>} :
            (out.macros[p[1]] = 1) <=>
                (CppStandard[out.standard] >= CppStandard[p[2]])

\* ------------------------------------------------------------------------
\* Properties of the architecture detection
\* ------------------------------------------------------------------------

\* the architecture tags of the 64-bit variants
Variants64 ==
    {"x86_64", "arm_v8_64", "mips_64", "powerpc_64", "risc_v_64", "sparc_64"}

\* pointer_size_bits is 32 or 64, one of is64Bit() and is32Bit() holds, and
\* pointer_size_bits is 64 exactly for the 64-bit variants
PointerSizeFollowsTag ==
    /\ out.info.pointer_size_bits \in {32, 64}
    /\ out.is64Bit # out.is32Bit
    /\ out.info.pointer_size_bits = 64 <=> out.info.architecture \in Variants64

C18_VectorImpliesSimd ==
    out.kind = "arch" => (out.hasVectorInstructions => out.hasSimdSupport)

\* ------------------------------------------------------------------------
\* Properties of the compiler detection
\* ------------------------------------------------------------------------

\* the macro that corresponds to each CompilerType
MacroOfType ==
    [gcc |-> "TRLC_COMPILER_GCC", clang |-> "TRLC_COMPILER_CLANG",
     msvc |-> "TRLC_COMPILER_MSVC", intel_classic |-> "TRLC_COMPILER_INTEL",
     intel_llvm |-> "TRLC_COMPILER_INTEL_LLVM", mingw |-> "TRLC_COMPILER_MINGW",
     unknown |-> "none"]

\* C14 as stated: in every toolchain at most one of the six TRLC_COMPILER_*
\* macros is 1, and a macro that is 1 is the one of getCompilerType().
C14_OneCompilerMacro ==
    out.kind = "compiler" =>
        LET ones == {m \in DOMAIN out.macros : out.macros[m] = 1}
        IN  /\ Cardinality(ones) <= 1
            /\ ones \subseteq {MacroOfType[out.type]}

\* ------------------------------------------------------------------------
\* Properties of the runtime features
\* ------------------------------------------------------------------------

\* the features of one build have been evaluated, and its architecture
\* family has no CPUID instruction
NoCpuidFamily ==
    /\ out.kind = "features"
    /\ out.architecture \notin {"x86", "x86_64"}

Effective(h) ==
    IF h \in {"none", "nullptr"} THEN "defaultAssertionHandler" ELSE h

\* C16: whatever the threads and the interleaving of their
\* setAssertionHandler calls, getAssertionHandler() never returns nullptr,
\* and it returns the argument of the call whose store came last, or the
\* default handler when that argument was nullptr.
C16_HandlerNeverNull ==
    /\ assertion_handler # "nullptr"
    /\ assertion_handler = Effective(lastSet)
    /\ got # NoGet =>
          /\ got.returned # "nullptr"
          /\ got.returned = Effective(got.lastSet)

\* a thread got the default handler after setAssertionHandler(nullptr)
\* while another thread is inside setAssertionHandler(testAssertionHandler)
C16_Witness ==
    /\ got.returned = "defaultAssertionHandler"
    /\ got.lastSet = "nullptr"
    /\ \E t \in Threads :
          hpc[t] = "store" /\ setArg[t] = "testAssertionHandler"

\* ------------------------------------------------------------------------
\* Properties of EndiannessInfo
\* ------------------------------------------------------------------------

\* C17 as stated: for every EndiannessInfo value info,
\* info.isNativeOrder(info.byte_order) is true and
\* info.isNativeOrder(getOppositeByteOrder(info.byte_order)) is false.
C17_OppositeNeverNative ==
    out.kind = "endian" => (out.native /\ ~out.opposite)

\* C17, amended: for every EndiannessInfo value info,
\* info.isNativeOrder(info.byte_order) is true, and
\* info.isNativeOrder(getOppositeByteOrder(info.byte_order)) is false
\* exactly when info.byte_order is not unknown.
C17_OppositeNotNativeUnlessUnknown ==
    out.kind = "endian" =>
        /\ out.native
        /\ ~out.opposite <=> sig.info.byte_order # "unknown"

\* the info of a mixed-endian build has been examined: its order is native,
\* the opposite of its order is not
C17_Witness ==
    /\ out.kind = "endian"
    /\ sig.info.byte_order = "mixed_endian"
    /\ out.native
    /\ ~out.opposite

\* ------------------------------------------------------------------------
\* Properties of PlatformInfo
\* ------------------------------------------------------------------------

\* C20 as stated: for every PlatformInfo getPlatformInfo() produces,
\* isPosix() is true exactly when the kernel family is "posix" or "unix".
C20_PosixIffKernelFamily ==
    out.kind = "platform" =>
        (out.isPosix <=>
            out.info.kernel_family \in {<<"p", "o", "s", "i", "x">>,
                                        <<"u", "n", "i", "x">>})

\* ------------------------------------------------------------------------
\* Properties of Version
\* ------------------------------------------------------------------------

\* (major, minor, patch) order: a is greater than or equal to b
LexGe(a, b) ==
    \/ a[1] > b[1]
    \/ a[1] = b[1] /\ a[2] > b[2]
    \/ a[1] = b[1] /\ a[2] = b[2] /\ a[3] >= b[3]

\* C21 as stated: for all non-negative arguments, Version::isAtLeast(major,
\* minor, patch) is true exactly when (MAJOR, MINOR, PATCH) is greater than
\* or equal to (major, minor, patch) in major-then-minor-then-patch order.
C21_IsAtLeastLexicographic ==
    out.kind = "isAtLeast" =>
        (out.result <=>
            LexGe(<<Version.MAJOR, Version.MINOR, Version.PATCH>>,
                  <<sig.major, sig.minor, sig.patch>>))

\* ------------------------------------------------------------------------
\* Properties of getCompilerType and getCompilerVersion
\* ------------------------------------------------------------------------

\* the identity signals of a combination
IntelSignal(b) == AnyDefined(b, {"__INTEL_COMPILER", "__ICL", "__ICC"})

ClangSignal(b) == Defined(b, "__clang__")

GccSignal(b) == Defined(b, "__GNUC__")

MingwSignal(b) == AnyDefined(b, {"__MINGW32__", "__MINGW64__"})

MsvcSignal(b) == Defined(b, "_MSC_VER")

\* the rules in their order: the condition of each and its result
TypeRules(b) ==
    << [when |-> IntelSignal(b),
        then |-> IF ClangSignal(b) THEN "intel_llvm" ELSE "intel_classic"],
       [when |-> ClangSignal(b), then |-> "clang"],
       [when |-> GccSignal(b),
        then |-> IF MingwSignal(b) THEN "mingw" ELSE "gcc"],
       [when |-> MsvcSignal(b), then |-> "msvc"] >>

\* the result of the first rule that matches, unknown if none does
FirstMatch(rules) ==
    LET hits == {i \in DOMAIN rules : rules[i].when}
    IN  IF hits = {} THEN "unknown"
        ELSE rules[CHOOSE i \in hits : \A j \in hits : i <= j].then

\* C24: for every combination of compiler identity signals,
\* getCompilerType() returns the result of the first matching rule in the
\* order Intel family (intel_llvm with the Clang signal, else
\* intel_classic), Clang, GCC (mingw with a MinGW signal, else gcc), MSVC,
\* and unknown if none matches.
C24_CompilerTypeFirstMatch ==
    out.kind = "compiler_id" => out.type = FirstMatch(TypeRules(sig))

\* Clang that also gives the GCC and the MSVC signal has been classified as
\* clang
C24_Witness ==
    /\ out.kind = "compiler_id"
    /\ sig.macros \cap IdentityMacros = {"__clang__", "__GNUC__", "_MSC_VER"}
    /\ out.type = "clang"

\* the decode rule of the vendor of a compiler type
VendorVersion(b, type) ==
    IF type \in {"intel_classic", "intel_llvm"}
      THEN IntelVersion(b.value.__INTEL_COMPILER)
    ELSE IF type = "clang" THEN ClangVersion(b)
    ELSE IF type \in {"gcc", "mingw"} THEN GnucVersion(b)
    ELSE IF type = "msvc" THEN MsvcVersion(b.value._MSC_VER)
    ELSE MakeVersion(0, 0, 0)

\* C30 as stated: for every combination of compiler identity signals,
\* getCompilerVersion() applies the decode rule of the vendor that
\* getCompilerType() selects (the Intel digit split for an Intel-family
\* type, the MSVC threshold table for msvc, and so on), and returns (0,0,0)
\* when getCompilerType() returns unknown.
C30_VersionRuleFollowsType ==
    out.kind = "compiler_id" => out.version = VendorVersion(sig, out.type)

\* ------------------------------------------------------------------------
\* Properties of detectCpuArchitecture
\* ------------------------------------------------------------------------

\* the 64-bit signals of the MIPS, PowerPC, RISC-V and SPARC families
Mips64Signal(b) ==
    \/ AnyDefined(b, {"__mips64__", "__mips64"})
    \/ /\ Defined(b, "_MIPS_SIM")
       /\ Defined(b, "_ABI64")
       /\ b.value["_MIPS_SIM"] = b.value["_ABI64"]

PowerPc64Signal(b) ==
    AnyDefined(b, {"__powerpc64__", "__ppc64__", "__PPC64__", "_ARCH_PPC64"})

RiscV64Signal(b) == Defined(b, "__riscv_xlen") /\ b.value["__riscv_xlen"] = 64

Sparc64Signal(b) == AnyDefined(b, {"__sparc64__", "__sparcv9"})

\* the strict chain: the condition of each rule and its result
ArchRules(b) ==
    << [when |-> AnyDefined(b, {"__x86_64__", "__x86_64", "__amd64__", "__amd64",
                                "_M_X64"}),
        then |-> "x86_64"],
       [when |-> AnyDefined(b, {"__i386__", "__i386", "__i486__", "__i586__",
                                "__i686__", "_M_IX86"}),
        then |-> "x86"],
       [when |-> AnyDefined(b, {"__aarch64__", "_M_ARM64"}), then |-> "arm_v8_64"],
       [when |-> AnyDefined(b, {"__arm__", "_M_ARM"}),
        then |-> IF AnyDefined(b, {"__ARM_ARCH_8__", "__ARM_ARCH_8A__"})
                   THEN "arm_v8_32"
                 ELSE IF AnyDefined(b, {"__ARM_ARCH_7__", "__ARM_ARCH_7A__",
                                        "__ARM_ARCH_7R__", "__ARM_ARCH_7M__",
                                        "__ARM_ARCH_7S__"})
                   THEN "arm_v7"
                 ELSE IF AnyDefined(b, {"__ARM_ARCH_6__", "__ARM_ARCH_6J__",
                                        "__ARM_ARCH_6K__", "__ARM_ARCH_6Z__",
                                        "__ARM_ARCH_6ZK__", "__ARM_ARCH_6T2__"})
                   THEN "arm_v6"
                 ELSE "arm_v7"],
       [when |-> AnyDefined(b, {"__mips__", "__mips", "__MIPS__"}),
        then |-> IF Mips64Signal(b) THEN "mips_64" ELSE "mips"],
       [when |-> AnyDefined(b, {"__powerpc__", "__powerpc", "__ppc__", "__ppc",
                                "_M_PPC"}),
        then |-> IF PowerPc64Signal(b) THEN "powerpc_64" ELSE "powerpc"],
       [when |-> Defined(b, "__riscv"),
        then |-> IF RiscV64Signal(b) THEN "risc_v_64" ELSE "risc_v_32"],
       [when |-> AnyDefined(b, {"__sparc__", "__sparc"}),
        then |-> IF Sparc64Signal(b) THEN "sparc_64" ELSE "sparc"] >>

\* C25 as stated: for every combination of architecture signals,
\* detectCpuArchitecture() returns the first match of the strict chain:
\* x86-64 before plain x86, AArch64 before generic ARM, the 32-bit ARM
\* sub-version v8, v7 or v6 with v7 when only the generic ARM signal is
\* present, and for MIPS, PowerPC, RISC-V and SPARC the 64-bit variant when
\* the family's 64-bit signal is present and the plain variant when it is
\* absent; no match gives unknown.
C25_ArchitectureFirstMatch ==
    out.kind = "arch" => out.info.architecture = FirstMatch(ArchRules(sig))

\* ------------------------------------------------------------------------
\* Properties of the byte order detection
\* ------------------------------------------------------------------------

\* the result of a triplet of byte order macros
Decode(value, little, big) ==
    IF value = little THEN "little_endian"
    ELSE IF value = big THEN "big_endian"
    ELSE "mixed_endian"

\* the ordered list of signals with a given table of little-endian
\* architecture macros: the condition of each rule and its result
ByteOrderRules(b, littleTable) ==
    << [when |-> OrderMacros \subseteq b.macros,
        then |-> Decode(b.byte_order, "__ORDER_LITTLE_ENDIAN__",
                        "__ORDER_BIG_ENDIAN__")],
       [when |-> {"BYTE_ORDER", "LITTLE_ENDIAN", "BIG_ENDIAN"} \subseteq b.macros,
        then |-> Decode(b.bsd_byte_order, "LITTLE_ENDIAN", "BIG_ENDIAN")],
       [when |-> AnyDefined(b, {"_WIN32", "_WIN64"}), then |-> "little_endian"],
       [when |-> AnyDefined(b, {"__LITTLE_ENDIAN__", "__ARMEL__"}),
        then |-> "little_endian"],
       [when |-> AnyDefined(b, {"__BIG_ENDIAN__", "__ARMEB__"}),
        then |-> "big_endian"],
       [when |-> AnyDefined(b, littleTable), then |-> "little_endian"],
       [when |-> \/ AnyDefined(b, {"__sparc__", "__sparc", "__MIPSEB__", "_POWER"})
                 \/ Defined(b, "__powerpc__") /\ Defined(b, "__BIG_ENDIAN__"),
        then |-> "big_endian"] >>

\* the identity macros of the x86 family, AMD64 and ARM64
LittleArchitectures ==
    {"__i386__", "__x86_64__", "__amd64__", "_M_IX86", "_M_X64", "_M_AMD64",
     "__aarch64__", "_M_ARM64"}

\* the byte order of a build is the first match of the rules, found without
\* the runtime probe; the probe runs exactly when no rule matches
FollowsRules(rules) ==
    LET first == FirstMatch(rules)
    IN  /\ out.probed <=> first = "unknown"
        /\ ~out.probed => out.order = first

FeatureTable ==
    [hasStructuredBindings |->
         [signals |-> <<"__cpp_structured_bindings">>, threshold |-> 201606,
          introduced |-> "cpp_17"],
     hasIfConstexpr |->
         [signals |-> <<"__cpp_if_constexpr">>, threshold |-> 201606,
          introduced |-> "cpp_17"],
     hasFoldExpressions |->
         [signals |-> <<"__cpp_fold_expressions">>, threshold |-> 201603,
          introduced |-> "cpp_17"],
     hasInlineVariables |->
         [signals |-> <<"__cpp_inline_variables">>, threshold |-> 201606,
          introduced |-> "cpp_17"],
     hasConcepts |->
         [signals |-> <<"__cpp_concepts">>, threshold |-> 201907,
          introduced |-> "cpp_20"],
     hasCoroutines |->
         [signals |-> <<"__cpp_impl_coroutine", "__cpp_coroutines">>,
          threshold |-> 201902, introduced |-> "cpp_20"],
     hasModules |->
         [signals |-> <<"__cpp_modules">>, threshold |-> 201907,
          introduced |-> "cpp_20"],
     hasRanges |->
         [signals |-> <<"__cpp_lib_ranges">>, threshold |-> 201911,
          introduced |-> "cpp_20"],
     hasConsteval |->
         [signals |-> <<"__cpp_consteval">>, threshold |-> 201811,
          introduced |-> "cpp_20"],
     hasConstinit |->
         [signals |-> <<"__cpp_constinit">>, threshold |-> 201907,
          introduced |-> "cpp_20"],
     hasDesignatedInitializers |->
         [signals |-> <<"__cpp_designated_initializers">>, threshold |-> 201707,
          introduced |-> "cpp_20"],
     hasThreeWayComparison |->
         [signals |-> <<"__cpp_impl_three_way_comparison">>, threshold |-> 201907,
          introduced |-> "cpp_20"]]

\* the result of the predicate f in the build that has been evaluated
Reported(f) ==
    IF f \in DOMAIN out.features THEN out.features[f] ELSE out.features17[f]

\* the signals of the feature f that are present in the build
Present(f) ==
    {i \in DOMAIN FeatureTable[f].signals : Defined(sig, FeatureTable[f].signals[i])}

\* with a signal present the first such signal decides against the
\* threshold, whatever the standard
SignalDecides(f) ==
    LET first == CHOOSE i \in Present(f) : \A j \in Present(f) : i <= j
    IN  Reported(f) <=>
            sig.value[FeatureTable[f].signals[first]] >= FeatureTable[f].threshold

\* without a signal the detected standard decides
StandardDecides(f) ==
    Reported(f) <=>
        CppStandard[out.standard] >= CppStandard[FeatureTable[f].introduced]

\* C27 as stated: for each named feature predicate, when a feature-test
\* signal specific to the feature is present the result is decided solely by
\* comparing that signal with the feature's threshold, and only when the
\* signal is absent is the result 'detected standard >= the standard that
\* introduced the feature'.
C27_EveryPredicateTwoTier ==
    out.kind = "cpp" =>
        \A f \in DOMAIN FeatureTable :
            IF Present(f) # {} THEN SignalDecides(f) ELSE StandardDecides(f)

\* C27, amended: for each named feature predicate, when a feature-test
\* signal specific to the feature is present the result is decided solely by
\* comparing that signal with the feature's threshold; when the signal is
\* absent the result is 'detected standard >= the standard that introduced
\* the feature' for every predicate but hasModules, which reports
\* unavailable.
C27_PredicatesTwoTier ==
    out.kind = "cpp" =>
        \A f \in DOMAIN FeatureTable :
            IF Present(f) # {} THEN SignalDecides(f)
            ELSE IF f = "hasModules" THEN ~Reported(f)
            ELSE StandardDecides(f)

\* a build classified as C++17 whose concepts signal has reached the
\* threshold: concepts are reported available on the lower standard, and
\* ranges, without a signal, are not
C27_Witness ==
    /\ out.kind = "cpp"
    /\ out.standard = "cpp_17"
    /\ Defined(sig, "__cpp_concepts")
    /\ out.features["hasConcepts"]
    /\ ~out.features["hasRanges"]

\* ------------------------------------------------------------------------
\* Properties of the runtime features by name
\* ------------------------------------------------------------------------

\* C28 as stated: after initializePlatform() has returned, for every
\* RuntimeFeature f the FeatureSet returned by getFeatureSet() and carried
\* in getPlatformReport().features answers hasRuntimeFeature(f) with the
\* same value as the probing function hasRuntimeFeature(f).
C28_FeatureSetAgreesWithProbes ==
    (out.kind = "query" /\ out.initialized) =>
        \A f \in RuntimeFeature :
            /\ out.feature_set[f] = out.function[f]
            /\ out.report[f] = out.function[f]

\* C29 as stated: for every RuntimeFeature value f, the template
\* hasRuntimeFeature<f>() returns the same result as the function
\* hasRuntimeFeature(f).
C29_TemplateAgreesWithFunction ==
    out.kind = "query" =>
        \A f \in RuntimeFeature : out.template[f] = out.function[f]

====
